---- MODULE Spec2Model ----
(***************************************************************************)
(* MemoryManager of pocket-agent (src/unnamed/part_000, lines 1607-2644):  *)
(* the SQLite-backed conversation log, summaries, facts, the facts_fts     *)
(* index, the embedding chunks and the cron job table.                     *)
(*                                                                         *)
(* Texts.  A text is a record [s |-> <string>, pad |-> n]: the string s    *)
(* together with n further filler characters.  Lengths are exact, which is *)
(* what token estimation reads; pad lets a summarizer output of tens of    *)
(* thousands of characters be written down.                                *)
(***************************************************************************)
EXTENDS Integers, Sequences, FiniteSets, Bags, TLC

(* ---------------------------------------------------------------- bounds *)
\* cap on the messages AUTOINCREMENT counter (number of saveMessage calls)
MaxMsgId == 5
\* cap on the summaries AUTOINCREMENT counter (number of summaries ever inserted)
MaxSummaryId == 4
\* the same two caps in the specification of the conversation store that
\* draws every input (NextConv)
MaxConvMsgId == 3
MaxConvSummaryId == 3
\* the longest conversation an earlier session may have left (InitConversation)
MaxConversation == 23
\* the most rows of facts, and of chunks, the loops of the fact graph are run over
MaxGraphRows == 320
\* the longest text handed to splitMessage
MaxText == 4
\* cap on the facts AUTOINCREMENT counter (number of facts ever inserted)
MaxFactId == 2
\* cap on the embedFact calls of saveFact that are in flight at once
MaxTasks == 2
\* cap on the cron_jobs AUTOINCREMENT counter
MaxCronId == 1

(* ------------------------------------------------------ program constants *)
CHARS_PER_TOKEN == 4
reservedTokens == 10000
\* "keep only the 3 most recent" (LIMIT 3 of the pruning statement)
SUMMARY_KEEP == 3
\* createBasicSummary: slice(-20), slice(0, 100), slice(0, 10)
BASIC_LAST_USER == 20
BASIC_TOPIC_CHARS == 100
BASIC_MAX_TOPICS == 10
\* getRecentMessages(limit: number = 50)
DEFAULT_RECENT_LIMIT == 50
\* searchFactsHybrid: the weights 0.7, 0.3 and 1.0 in tenths, the thresholds
\* 0.35 and 0.15 in hundredths
VECTOR_WEIGHT == 7
KEYWORD_WEIGHT == 3
KEYWORD_ONLY_WEIGHT == 10
MIN_SCORE_THRESHOLD == 35
KEYWORD_ONLY_THRESHOLD == 15
MAX_SEARCH_RESULTS == 6
\* LIMIT 500 of the chunk scan, LIMIT 20 of the FTS query
CHUNK_SCAN_LIMIT == 500
FTS_LIMIT == 20
\* the 1 of Math.max(...ranks, 1), in thousandths
RANK_FLOOR == 1000
\* getFactsGraphData: node subject fallback content.slice(0, 30), group 7 = other
NODE_SUBJECT_CHARS == 30
OTHER_GROUP == 7
\* j < Math.min(i + 4, length), and the strength 0.3 in thousandths
CATEGORY_WINDOW == 4
CATEGORY_STRENGTH == 300
MAX_SEMANTIC_COMPARISONS == 200
MAX_COMPARISONS == 10000
\* similarity >= 0.5, in thousandths
SEMANTIC_MIN == 500
MAX_KEYWORD_FACTS == 300
MAX_KEYWORD_COMPARISONS == 15000
\* /\b[a-z]{4,}\b/, shared >= 2, Math.min(1, shared / 5)
KEYWORD_MIN_LENGTH == 4
KEYWORD_MIN_SHARED == 2
KEYWORD_FULL_SHARED == 5

(* ------------------------------------------------------------------ texts *)
T(str) == [s |-> str, pad |-> 0]
TextLen(t) == Len(t.s) + t.pad
\* `${a}${b}`
Concat(a, b) == [s |-> a.s \o b.s, pad |-> a.pad + b.pad]
\* text.slice(0, n)
Slice(t, n) ==
  IF Len(t.s) >= n THEN [s |-> SubSeq(t.s, 1, n), pad |-> 0]
  ELSE [s |-> t.s, pad |-> IF t.pad < n - Len(t.s) THEN t.pad ELSE n - Len(t.s)]

RECURSIVE ReplaceNewlines(_)
\* str.replace(/\n/g, ' ')
ReplaceNewlines(str) ==
  IF Len(str) = 0 THEN ""
  ELSE (IF SubSeq(str, 1, 1) = "\n" THEN " " ELSE SubSeq(str, 1, 1))
       \o ReplaceNewlines(SubSeq(str, 2, Len(str)))

\* mutant of estimateTokens: Math.floor in the place of Math.ceil
estimateTokensFloor(text) == TextLen(text) \div CHARS_PER_TOKEN

\* Math.ceil(text.length / CHARS_PER_TOKEN)
estimateTokens(text) == (TextLen(text) + CHARS_PER_TOKEN - 1) \div CHARS_PER_TOKEN

(* ---------------------------------------------------------------- strings *)
\* the characters that occur, in code unit order
Ascii == " '+0123456789ABCDEFGHIJKLMNOPQRSTUVWXYZ_abcdefghijklmnopqrstuvwxyz"
UpperCase == "ABCDEFGHIJKLMNOPQRSTUVWXYZ"
LowerCase == "abcdefghijklmnopqrstuvwxyz"
Digits == "0123456789"

\* the position of the character c in str, 0 when it is not there
IndexOf(c, str) ==
  IF \E i \in 1..Len(str) : SubSeq(str, i, i) = c
  THEN CHOOSE i \in 1..Len(str) : SubSeq(str, i, i) = c
  ELSE 0

\* a < b in code unit order (SQLite's BINARY collation)
RECURSIVE StrLess(_, _)
StrLess(a, b) ==
  IF Len(b) = 0 THEN FALSE
  ELSE IF Len(a) = 0 THEN TRUE
  ELSE LET ca == IndexOf(SubSeq(a, 1, 1), Ascii)
           cb == IndexOf(SubSeq(b, 1, 1), Ascii)
       IN IF ca # cb THEN ca < cb
          ELSE StrLess(SubSeq(a, 2, Len(a)), SubSeq(b, 2, Len(b)))

\* str.toLowerCase()
RECURSIVE ToLowerCase(_)
ToLowerCase(str) ==
  IF Len(str) = 0 THEN ""
  ELSE LET c == SubSeq(str, 1, 1)
           u == IndexOf(c, UpperCase)
       IN (IF u = 0 THEN c ELSE SubSeq(LowerCase, u, u))
          \o ToLowerCase(SubSeq(str, 2, Len(str)))

\* the maximal runs in str of characters of wordChars, left to right
RECURSIVE RunsFrom(_, _, _, _)
RunsFrom(str, i, cur, wordChars) ==
  LET flush == IF cur = "" THEN <<>> ELSE <<cur>>
  IN IF i > Len(str) THEN flush
     ELSE LET c == SubSeq(str, i, i)
          IN IF IndexOf(c, wordChars) # 0
             THEN RunsFrom(str, i + 1, cur \o c, wordChars)
             ELSE flush \o RunsFrom(str, i + 1, "", wordChars)

\* str.trim()
RECURSIVE Trim(_)
Trim(str) ==
  IF Len(str) = 0 THEN ""
  ELSE IF SubSeq(str, 1, 1) \in {" ", "\n"} THEN Trim(SubSeq(str, 2, Len(str)))
  ELSE IF SubSeq(str, Len(str), Len(str)) \in {" ", "\n"}
       THEN Trim(SubSeq(str, 1, Len(str) - 1))
  ELSE str

\* str.replace(/['"]/g, '')
RECURSIVE RemoveQuotes(_)
RemoveQuotes(str) ==
  IF Len(str) = 0 THEN ""
  ELSE LET c == SubSeq(str, 1, 1)
       IN (IF c = "'" \/ c = "\"" THEN "" ELSE c) \o RemoveQuotes(SubSeq(str, 2, Len(str)))

\* the function x |-> F(x) on S, written out value by value
RECURSIVE Tabulate(_, _)
Tabulate(F(_), S) ==
  IF S = {} THEN <<>>
  ELSE LET x == CHOOSE y \in S : TRUE IN (x :> F(x)) @@ Tabulate(F, S \ {x})

\* q.map(F)
RECURSIVE MapSeq(_, _)
MapSeq(F(_), q) == IF q = <<>> THEN <<>> ELSE <<F(q[1])>> \o MapSeq(F, Tail(q))

(* ----------------------------------------------------------------- inputs *)
\* saveMessage arguments <<role, content>>: 1 token and 3 tokens
MsgInputs == {<<"user", T("hi")>>, <<"assistant", T("hello there")>>}
\* saveMessage arguments of 0, 2, 4, 5, 4001 and 10000 characters
LogInputs == {<<"user", T("")>>, <<"user", T("hi")>>, <<"assistant", T("okay")>>,
              <<"user", T("hello")>>, <<"assistant", [s |-> "A", pad |-> 4000]>>,
              <<"user", [s |-> "B", pad |-> 9999]>>}
\* getRecentMessages arguments
Limits == {0, 1, 2, DEFAULT_RECENT_LIMIT}
\* the conversations of a database written by an earlier session: message i of
\* a conversation of each kind.  Contents of 7 characters that all differ, of 2
\* characters that are all the same, that come in equal pairs, of 157
\* characters, of two lines, and a dialogue of user and assistant turns
ConversationKinds == {"distinct", "same", "pairs", "long", "lines", "dialogue"}
TopicNames == "abcdefghijklmnopqrstuvwxyz"
PoolMessage(kind, i) ==
  LET name == SubSeq(TopicNames, i, i)
      pair == SubSeq(TopicNames, (i + 1) \div 2, (i + 1) \div 2)
      content == CASE kind = "same" -> T("hi")
                   [] kind = "pairs" -> T("topic " \o pair)
                   [] kind = "long" -> [s |-> "topic " \o name, pad |-> 150]
                   [] kind = "lines" -> T("line " \o name \o "\nnext")
                   [] OTHER -> T("topic " \o name)
  IN [id |-> i,
      role |-> IF kind = "dialogue" /\ i % 2 = 0 THEN "assistant" ELSE "user",
      content |-> content, token_count |-> estimateTokens(content)]
\* token limits with room for 2 tokens, or for 40
BasicBudgets == {reservedTokens + 2, reservedTokens + 40}
\* the sizes of the stores the loops of the fact graph are run over: the round
\* ones, the largest, and those next to where a limit or a cap is reached
GraphSizes ==
  {n \in 0..MaxGraphRows :
     n % 20 = 0 \/ n = MaxGraphRows \/ n \in {1, 2, 141, 142, 173, 174, 199, 201, 299, 301}}
\* which facts of a large store have keywords: all, none, or all but every third
KeywordPatterns == {"all", "none", "thirds"}
\* ctx.from?.id and ctx.chat?.id of a Telegram update; 0 stands for undefined
\* the characters of a reply: a letter, the whitespace and the sentence ends
\* that splitMessage looks for
SplitChars == {"a", " ", "\n", ".", "?"}
RECURSIVE TextsOfLength(_)
TextsOfLength(n) ==
  IF n = 0 THEN {""} ELSE {t \o c : t \in TextsOfLength(n - 1), c \in SplitChars}
SplitTexts == UNION {TextsOfLength(n) : n \in 0..MaxText}
\* maxLength; both callers pass MAX_LENGTH = 4000, scaled here to the texts
SplitLengths == {2, 3}
BotUserIds == {0, 1, 2}
BotChatIds == {0, 1, 2}
\* the handler an update is for, when the middleware lets it through
BotHandlers == {"start", "mychatid", "message:text"}
\* the facts table of a database written by earlier sessions: a prefix of this
\* list, with ids in list order
FactPool ==
  << [category |-> "pets", subject |-> "dog", content |-> T("Has a golden retriever")],
     [category |-> "pets", subject |-> "cat", content |-> T("Has a tabby cat")],
     [category |-> "user_info", subject |-> "name", content |-> T("John has pets")],
     [category |-> "pets", subject |-> "bird", content |-> T("Has a parrot")],
     [category |-> "pets", subject |-> "fish", content |-> T("Has a goldfish")],
     [category |-> "pets", subject |-> "ant", content |-> T("Has an ant farm")],
     [category |-> "pets", subject |-> "walk",
      content |-> T("Has daily walks with the golden retriever")] >>
\* searchFactsHybrid arguments
Queries == {"golden retriever", "has", "'"}
\* the embeddings a provider returns: vectors of norm 25
Vectors == {<<25, 0>>, <<7, 24>>}
\* what the chunks of the facts hold, by fact id: one vector for all, or two
\* vectors in turn
EmbeddingProfiles ==
  {[id \in 1..Len(FactPool) |-> <<25, 0>>],
   [id \in 1..Len(FactPool) |-> IF id % 2 = 1 THEN <<25, 0>> ELSE <<7, 24>>]}
\* |bm25| of a matched row as SQLite computes it, in thousandths, by row id:
\* a term most rows hold (0.001), a term one row in three holds (1.532), and
\* graded ranks
RankProfiles ==
  {[id \in 1..Len(FactPool) |-> 1],
   [id \in 1..Len(FactPool) |-> 1532],
   [id \in 1..Len(FactPool) |-> 150 * id]}
\* token limits a caller passes: below the reserve (no message fits), and the
\* reserve plus room for 1 or for 4 tokens of messages
Budgets == {100, reservedTokens + 1, reservedTokens + 4}
\* what a configured summarizer may resolve with: a short text, or one longer
\* than the whole reserve (more than 4 * 10000 characters)
SummarizerOutputs == {T("Custom summary"), [s |-> "Long summary", pad |-> 40000]}
\* token limits with room for one message of one token, or for four
DeepBudgets == {reservedTokens + 1, reservedTokens + 4}
\* concurrent callers of getConversationContext
Callers == {1, 2}
\* saveFact arguments
FactKeys == {<<"user_info", "name">>, <<"user_info", "age">>}
FactContents == {T("John"), T("John Doe")}
\* saveFact arguments of the facts a context text lists: two subjects of one
\* category, another category, and a fact without a subject
ContextKeys == {<<"pets", "dog">>, <<"pets", "cat">>, <<"notes", "">>}
\* saveCronJob arguments <<name, schedule, prompt, channel>>
CronInputs == {<<"daily", "0 9 * * *", "Good morning", "desktop">>}

(* ------------------------------------------------------------------ state *)
VARIABLES
  messages,     \* table messages: set of [id, role, content, token_count]
  msgSeq,       \* sqlite_sequence of messages (last id AUTOINCREMENT gave out)
  summaries,    \* table summaries: set of [id, start_message_id, end_message_id, content, token_count]
  sumSeq,       \* sqlite_sequence of summaries
  summarizer,   \* this.summarizer is set
  pending,      \* per caller: <<>> or <<locals of a getConversationContext call suspended in await this.summarizer(..)>>
  ret,          \* the latest return value (or rejection) an operation handed to its caller
  savesSinceClear, \* history: saveMessage calls since the last clearConversation
  issuedIds,    \* history: every id a saveMessage has returned
  facts,        \* table facts: set of [id, category, subject, content]
  factSeq,      \* sqlite_sequence of facts
  facts_fts,    \* the FTS5 index: set of [rowid, category, subject, content]
  chunks,       \* table chunks in insertion order: sequence of [fact_id, content]
  embeddingsReady, \* initEmbeddings was called: hasEmbeddings() is true
  embedTasks,   \* bag of the facts whose embedFact, started by saveFact, awaits embed(..)
  backfill,     \* embedMissingFacts: the facts still to embed; the head awaits embed(..)
  unhandledRejections, \* promise rejections no handler caught
  embedLog,     \* what embedFact's catch logged last: "none", "provider" or "constraint"
  cron_jobs,    \* table cron_jobs: set of [id, name, schedule, prompt, channel, enabled]
  cronSeq,      \* sqlite_sequence of cron_jobs
  allowedUserIds,   \* TelegramBot.allowedUserIds
  activeChatIds,    \* TelegramBot.activeChatIds
  persistedChatIds, \* the setting telegram.activeChatIds
  passedChatIds     \* history: the chats of the updates that passed the allowlist check

convVars == <<messages, msgSeq, summaries, sumSeq, summarizer, pending, savesSinceClear,
              issuedIds>>
factVars == <<facts, factSeq, facts_fts, chunks, embeddingsReady, embedTasks, backfill,
              unhandledRejections, embedLog>>
cronVars == <<cron_jobs, cronSeq>>
botVars == <<allowedUserIds, activeChatIds, persistedChatIds, passedChatIds>>
vars == <<convVars, factVars, cronVars, botVars, ret>>

(* ---------------------------------------------------------------- helpers *)
\* rows of a table with distinct ids, ORDER BY id ASC
RECURSIVE OrderByIdAsc(_)
OrderByIdAsc(S) ==
  IF S = {} THEN <<>>
  ELSE LET m == CHOOSE x \in S : \A y \in S : x.id <= y.id
       IN <<m>> \o OrderByIdAsc(S \ {m})

Reverse(q) == [i \in 1..Len(q) |-> q[Len(q) + 1 - i]]

\* SELECT ... FROM messages ORDER BY id DESC
AllMessagesDesc == Reverse(OrderByIdAsc(messages))

\* mutant of getMessageCount: the last id handed out taken for the row count
getMessageCountLastId == msgSeq

\* getMessageCount(): SELECT COUNT(*) FROM messages
getMessageCount == Cardinality(messages)

(* ------------------------------------------------------ conversation store *)
\* mutant of NextMessageId: a rowid without AUTOINCREMENT, one more than the
\* greatest id in the table
NextMessageIdRowid ==
  IF messages = {} THEN 1
  ELSE (CHOOSE m \in messages : \A o \in messages : o.id <= m.id).id + 1

\* id INTEGER PRIMARY KEY AUTOINCREMENT: one more than the greatest id the
\* table ever held (sqlite_sequence)
NextMessageId == msgSeq + 1

\* saveMessage(role, content)
saveMessage(role, content) ==
  /\ msgSeq < MaxMsgId
  /\ LET id == NextMessageId
         tokenCount == estimateTokens(content)
     IN /\ messages' = messages \cup
               {[id |-> id, role |-> role, content |-> content, token_count |-> tokenCount]}
        /\ msgSeq' = id
        /\ ret' = [op |-> "saveMessage", value |-> id]
        /\ issuedIds' = issuedIds \cup {id}
  /\ savesSinceClear' = savesSinceClear + 1
  /\ UNCHANGED <<summaries, sumSeq, summarizer, pending>>
  /\ UNCHANGED <<factVars, cronVars, botVars>>

\* mutant of clearConversation: the DELETE FROM summaries left out
clearConversationMessagesOnly ==
  /\ messages' = {}
  /\ savesSinceClear' = 0
  /\ ret' = [op |-> "clearConversation"]
  /\ UNCHANGED <<msgSeq, summaries, sumSeq, summarizer, pending, issuedIds>>
  /\ UNCHANGED <<factVars, cronVars, botVars>>

\* clearConversation(): DELETE FROM messages; DELETE FROM summaries
clearConversation ==
  /\ messages' = {}
  /\ summaries' = {}
  /\ savesSinceClear' = 0
  /\ ret' = [op |-> "clearConversation"]
  /\ UNCHANGED <<msgSeq, sumSeq, summarizer, pending, issuedIds>>
  /\ UNCHANGED <<factVars, cronVars, botVars>>

\* setSummarizer(fn)
setSummarizer ==
  /\ summarizer' = TRUE
  /\ ret' = [op |-> "setSummarizer"]
  /\ UNCHANGED <<messages, msgSeq, summaries, sumSeq, pending, savesSinceClear, issuedIds>>
  /\ UNCHANGED <<factVars, cronVars, botVars>>

\* SELECT SUM(token_count) FROM messages: <<sum>>, or <<>> (NULL) over no rows
RECURSIVE SumTokenCount(_)
SumTokenCount(rows) ==
  IF rows = {} THEN <<>>
  ELSE LET m == CHOOSE x \in rows : TRUE
           rest == SumTokenCount(rows \ {m})
       IN <<m.token_count + (IF rest = <<>> THEN 0 ELSE rest[1])>>

\* getStats()
getStats ==
  /\ LET t == SumTokenCount(messages)
     IN ret' = [op |-> "getStats",
                messageCount |-> Cardinality(messages),
                factCount |-> Cardinality(facts),
                cronJobCount |-> Cardinality(cron_jobs),
                summaryCount |-> Cardinality(summaries),
                estimatedTokens |-> IF t = <<>> THEN 0 ELSE t[1],
                embeddedFactCount |-> Cardinality({chunks[i].fact_id : i \in 1..Len(chunks)})]
  /\ UNCHANGED <<convVars, factVars, cronVars, botVars>>

\* mutant of RecentRows: ORDER BY id ASC, and no reverse
RecentRowsOldest(limit) ==
  LET asc == OrderByIdAsc(messages)
  IN IF limit < 0 \/ Len(asc) <= limit THEN asc ELSE SubSeq(asc, 1, limit)

\* SELECT .. FROM messages ORDER BY id DESC LIMIT ? (a negative LIMIT is none),
\* then rows.reverse()
RecentRows(limit) ==
  LET desc == AllMessagesDesc
      rows == IF limit < 0 \/ Len(desc) <= limit THEN desc ELSE SubSeq(desc, 1, limit)
  IN Reverse(rows)

\* getRecentMessages(limit)
getRecentMessages(limit) ==
  /\ ret' = [op |-> "getRecentMessages", limit |-> limit, value |-> RecentRows(limit)]
  /\ UNCHANGED <<convVars, factVars, cronVars, botVars>>

(* -------------------------------------------------- getConversationContext *)
\* mutant of Walk: the budget test written >= instead of >
RECURSIVE WalkExclusive(_, _, _, _, _)
WalkExclusive(all, i, recentMessages, tokenCount, availableTokens) ==
  IF i > Len(all)
  THEN [recent |-> recentMessages, tokenCount |-> tokenCount, cutoffIndex |-> Len(all)]
  ELSE LET msg == all[i]
           msgTokens == IF msg.token_count # 0 THEN msg.token_count
                        ELSE estimateTokens(msg.content)
       IN IF tokenCount + msgTokens >= availableTokens
          THEN [recent |-> recentMessages, tokenCount |-> tokenCount, cutoffIndex |-> i - 1]
          ELSE WalkExclusive(all, i + 1, <<msg>> \o recentMessages, tokenCount + msgTokens,
                             availableTokens)

\* mutant of Walk: a message that does not fit is passed over (continue), and
\* the loop goes on to the older ones
RECURSIVE WalkSkipping(_, _, _, _, _)
WalkSkipping(all, i, recentMessages, tokenCount, availableTokens) ==
  IF i > Len(all)
  THEN [recent |-> recentMessages, tokenCount |-> tokenCount, cutoffIndex |-> Len(all)]
  ELSE LET msg == all[i]
           msgTokens == IF msg.token_count # 0 THEN msg.token_count
                        ELSE estimateTokens(msg.content)
       IN IF tokenCount + msgTokens > availableTokens
          THEN WalkSkipping(all, i + 1, recentMessages, tokenCount, availableTokens)
          ELSE WalkSkipping(all, i + 1, <<msg>> \o recentMessages, tokenCount + msgTokens,
                            availableTokens)

\* the newest-to-oldest loop of getConversationContext; all is ORDER BY id DESC,
\* i is the 1-based position, cutoffIndex is the code's 0-based index
RECURSIVE Walk(_, _, _, _, _)
Walk(all, i, recentMessages, tokenCount, availableTokens) ==
  IF i > Len(all)
  THEN [recent |-> recentMessages, tokenCount |-> tokenCount, cutoffIndex |-> Len(all)]
  ELSE LET msg == all[i]
           msgTokens == IF msg.token_count # 0 THEN msg.token_count
                        ELSE estimateTokens(msg.content)
       IN IF tokenCount + msgTokens > availableTokens
          THEN [recent |-> recentMessages, tokenCount |-> tokenCount, cutoffIndex |-> i - 1]
          ELSE Walk(all, i + 1, <<msg>> \o recentMessages, tokenCount + msgTokens,
                    availableTokens)

\* m => ({ role: m.role, content: m.content })
RoleContent(q) == [i \in 1..Len(q) |-> [role |-> q[i].role, content |-> q[i].content]]

(* -------------------------------------------------------- getOrCreateSummary *)
\* Array.from(new Set(q)): first occurrences, in insertion order
RECURSIVE Distinct(_)
Distinct(q) ==
  IF q = <<>> THEN <<>>
  ELSE LET rest == Distinct(SubSeq(q, 1, Len(q) - 1))
           last == q[Len(q)]
       IN IF \E i \in 1..Len(rest) : rest[i] = last THEN rest ELSE Append(rest, last)

\* q.slice(-n)
LastN(q, n) == IF Len(q) <= n THEN q ELSE SubSeq(q, Len(q) - n + 1, Len(q))
\* q.slice(0, n)
FirstN(q, n) == IF Len(q) <= n THEN q ELSE SubSeq(q, 1, n)

\* topicList.map(t => `- ${t}...`).join('\n')
RECURSIVE JoinTopics(_)
JoinTopics(q) ==
  IF q = <<>> THEN T("")
  ELSE LET line == Concat(T("- "), Concat(q[1], T("...")))
       IN IF Len(q) = 1 THEN line
          ELSE Concat(line, Concat(T("\n"), JoinTopics(Tail(q))))

\* mutant of createBasicSummary: userMessages.slice(0, 20), the first 20
createBasicSummaryOldest(msgs) ==
  LET IsUser(m) == m.role = "user"
      userMessages == SelectSeq(msgs, IsUser)
      lastUsers == FirstN(userMessages, BASIC_LAST_USER)
      topic(m) == LET cut == Slice(m.content, BASIC_TOPIC_CHARS)
                  IN [s |-> ReplaceNewlines(cut.s), pad |-> cut.pad]
      topics == Distinct([i \in 1..Len(lastUsers) |-> topic(lastUsers[i])])
      topicList == FirstN(topics, BASIC_MAX_TOPICS)
  IN Concat(T("Previous conversation (" \o ToString(Len(msgs)) \o " messages) covered:\n"),
            JoinTopics(topicList))

\* createBasicSummary(messages): msgs is the range in ascending id order
createBasicSummary(msgs) ==
  LET IsUser(m) == m.role = "user"
      userMessages == SelectSeq(msgs, IsUser)
      lastUsers == LastN(userMessages, BASIC_LAST_USER)
      topic(m) == LET cut == Slice(m.content, BASIC_TOPIC_CHARS)
                  IN [s |-> ReplaceNewlines(cut.s), pad |-> cut.pad]
      topics == Distinct([i \in 1..Len(lastUsers) |-> topic(lastUsers[i])])
      topicList == FirstN(topics, BASIC_MAX_TOPICS)
  IN Concat(T("Previous conversation (" \o ToString(Len(msgs)) \o " messages) covered:\n"),
            JoinTopics(topicList))

\* mutant of ExistingSummary: the lookup made with beforeMessageId
ExistingSummaryAtCutoff(endId) ==
  LET rows == {r \in summaries : r.end_message_id = endId + 1}
  IN IF rows = {} THEN <<>>
     ELSE <<CHOOSE r \in rows : \A o \in rows : o.id <= r.id>>

\* SELECT content FROM summaries WHERE end_message_id = ? ORDER BY id DESC LIMIT 1
ExistingSummary(endId) ==
  LET rows == {r \in summaries : r.end_message_id = endId}
  IN IF rows = {} THEN <<>>
     ELSE <<CHOOSE r \in rows : \A o \in rows : o.id <= r.id>>

\* SELECT .. FROM summaries WHERE end_message_id < ? ORDER BY end_message_id DESC LIMIT 1
\* (rows with equal end_message_id come in no defined order: any of them)
PartialSummaries(beforeMessageId) ==
  LET rows == {r \in summaries : r.end_message_id < beforeMessageId}
  IN {r \in rows : \A o \in rows : o.end_message_id <= r.end_message_id}

\* mutant of SummaryPlan: the partial summary is combined with the whole range
SummaryPlanWholeRange(beforeMessageId, partial) ==
  LET existingSummary == ExistingSummary(beforeMessageId - 1)
      messagesToSummarize == OrderByIdAsc({m \in messages : m.id < beforeMessageId})
      endId == messagesToSummarize[Len(messagesToSummarize)].id
  IN IF beforeMessageId <= 1 THEN [kind |-> "return", value |-> <<>>]
     ELSE IF existingSummary # <<>>
       THEN [kind |-> "return", value |-> <<existingSummary[1].content>>]
     ELSE IF Len(messagesToSummarize) = 0 THEN [kind |-> "return", value |-> <<>>]
     ELSE IF partial # <<>> /\ summarizer
       THEN LET After(m) == m.id > partial[1].end_message_id
                newMessages == SelectSeq(messagesToSummarize, After)
            IN IF Len(newMessages) = 0
               THEN [kind |-> "return", value |-> <<partial[1].content>>]
               ELSE [kind |-> "await",
                     input |-> <<[id |-> 0, role |-> "system",
                                  content |-> Concat(T("Previous summary: "), partial[1].content),
                                  token_count |-> 0]>> \o messagesToSummarize,
                     startId |-> 1, endId |-> endId]
     ELSE IF summarizer
       THEN [kind |-> "await", input |-> messagesToSummarize,
             startId |-> messagesToSummarize[1].id, endId |-> endId]
     ELSE [kind |-> "basic", value |-> <<createBasicSummary(messagesToSummarize)>>,
           startId |-> messagesToSummarize[1].id, endId |-> endId]

\* The part of getOrCreateSummary(beforeMessageId) that runs before it awaits
\* or writes; partial is <<>> or <<the row the partial-summary query returned>>.
\*   kind "return": returns value (<<>> is undefined) without writing
\*   kind "await" : suspends in await this.summarizer(input)
\*   kind "basic" : createBasicSummary gave value; insert and prune follow
SummaryPlan(beforeMessageId, partial) ==
  LET existingSummary == ExistingSummary(beforeMessageId - 1)
      messagesToSummarize == OrderByIdAsc({m \in messages : m.id < beforeMessageId})
      endId == messagesToSummarize[Len(messagesToSummarize)].id
  IN IF beforeMessageId <= 1 THEN [kind |-> "return", value |-> <<>>]
     ELSE IF existingSummary # <<>>
       THEN [kind |-> "return", value |-> <<existingSummary[1].content>>]
     ELSE IF Len(messagesToSummarize) = 0 THEN [kind |-> "return", value |-> <<>>]
     ELSE IF partial # <<>> /\ summarizer
       THEN LET After(m) == m.id > partial[1].end_message_id
                newMessages == SelectSeq(messagesToSummarize, After)
            IN IF Len(newMessages) = 0
               THEN [kind |-> "return", value |-> <<partial[1].content>>]
               ELSE [kind |-> "await",
                     input |-> <<[id |-> 0, role |-> "system",
                                  content |-> Concat(T("Previous summary: "), partial[1].content),
                                  token_count |-> 0]>> \o newMessages,
                     startId |-> 1, endId |-> endId]
     ELSE IF summarizer
       THEN [kind |-> "await", input |-> messagesToSummarize,
             startId |-> messagesToSummarize[1].id, endId |-> endId]
     ELSE [kind |-> "basic", value |-> <<createBasicSummary(messagesToSummarize)>>,
           startId |-> messagesToSummarize[1].id, endId |-> endId]

\* INSERT INTO summaries (start_message_id, end_message_id, content, token_count)
InsertSummary(startId, endId, summary) ==
  summaries \cup {[id |-> sumSeq + 1, start_message_id |-> startId,
                   end_message_id |-> endId, content |-> summary,
                   token_count |-> estimateTokens(summary)]}

\* mutant of PruneKeeps: .. ORDER BY id DESC LIMIT 3, the newest rows kept
PruneKeepsNewest(rows) ==
  {keep \in SUBSET rows :
     /\ Cardinality(keep) = IF Cardinality(rows) < SUMMARY_KEEP
                            THEN Cardinality(rows) ELSE SUMMARY_KEEP
     /\ \A k \in keep, d \in rows \ keep : k.id >= d.id}

\* DELETE FROM summaries WHERE id NOT IN
\*   (SELECT id FROM summaries ORDER BY end_message_id DESC LIMIT 3):
\* the sets of rows the statement may leave (ties in any order)
PruneKeeps(rows) ==
  {keep \in SUBSET rows :
     /\ Cardinality(keep) = IF Cardinality(rows) < SUMMARY_KEEP
                            THEN Cardinality(rows) ELSE SUMMARY_KEEP
     /\ \A k \in keep, d \in rows \ keep : k.end_message_id >= d.end_message_id}

\* mutant of ContextResult: summarizedCount: allMessages.length
ContextResultCountsAll(budget, stored, recentMessages, tokenCount, summary) ==
  LET truthy == summary # <<>> /\ TextLen(summary[1]) > 0
  IN [op |-> "getConversationContext", status |-> "resolved",
      budget |-> budget, stored |-> stored,
      messages |->
        (IF truthy
         THEN <<[role |-> "system",
                 content |-> Concat(T("[Previous conversation summary]\n"), summary[1])]>>
         ELSE <<>>) \o RoleContent(recentMessages),
      totalTokens |-> tokenCount + (IF truthy THEN estimateTokens(summary[1]) ELSE 0),
      summarizedCount |-> Len(stored),
      summary |-> summary]

\* The tail of getConversationContext after getOrCreateSummary returned
\* summary (<<>> is undefined): the value the call resolves with.
\* stored is what the call read from messages (ascending), kept for reference.
ContextResult(budget, stored, recentMessages, tokenCount, summary) ==
  LET truthy == summary # <<>> /\ TextLen(summary[1]) > 0
  IN [op |-> "getConversationContext", status |-> "resolved",
      budget |-> budget, stored |-> stored,
      messages |->
        (IF truthy
         THEN <<[role |-> "system",
                 content |-> Concat(T("[Previous conversation summary]\n"), summary[1])]>>
         ELSE <<>>) \o RoleContent(recentMessages),
      totalTokens |-> tokenCount + (IF truthy THEN estimateTokens(summary[1]) ELSE 0),
      summarizedCount |-> Len(stored) - Len(recentMessages),
      summary |-> summary]

\* The early returns of getConversationContext (no message stored, or all fit)
ContextResultAllFit(budget, stored, recentMessages, tokenCount) ==
  [op |-> "getConversationContext", status |-> "resolved",
   budget |-> budget, stored |-> stored,
   messages |-> RoleContent(recentMessages),
   totalTokens |-> tokenCount,
   summarizedCount |-> 0,
   summary |-> <<>>]

NoPending == [c \in Callers |-> <<>>]
NumPending == Cardinality({c \in Callers : pending[c] # <<>>})

\* getConversationContext(tokenLimit) up to its return or to the point where
\* getOrCreateSummary suspends in await this.summarizer(..)
getConversationContext(caller, tokenLimit) ==
  /\ pending[caller] = <<>>
  /\ sumSeq + NumPending < MaxSummaryId
  /\ LET availableTokens == tokenLimit - reservedTokens
         allMessages == AllMessagesDesc
         stored == Reverse(allMessages)
         w == Walk(allMessages, 1, <<>>, 0, availableTokens)
         oldestRecentId == IF Len(w.recent) > 0 /\ w.recent[1].id # 0
                           THEN w.recent[1].id ELSE 0
     IN IF Len(allMessages) = 0 \/ w.cutoffIndex >= Len(allMessages)
        THEN /\ ret' = ContextResultAllFit(tokenLimit, stored, w.recent, w.tokenCount)
             /\ UNCHANGED <<summaries, sumSeq, pending>>
        ELSE \E partial \in {<<r>> : r \in PartialSummaries(oldestRecentId)} \cup
                             (IF PartialSummaries(oldestRecentId) = {} THEN {<<>>} ELSE {}) :
               LET plan == SummaryPlan(oldestRecentId, partial)
               IN CASE plan.kind = "return" ->
                         /\ ret' = ContextResult(tokenLimit, stored, w.recent, w.tokenCount,
                                                 plan.value)
                         /\ UNCHANGED <<summaries, sumSeq, pending>>
                    [] plan.kind = "basic" ->
                         /\ summaries' \in
                              PruneKeeps(InsertSummary(plan.startId, plan.endId, plan.value[1]))
                         /\ sumSeq' = sumSeq + 1
                         /\ ret' = ContextResult(tokenLimit, stored, w.recent, w.tokenCount,
                                                 plan.value)
                         /\ UNCHANGED pending
                    [] plan.kind = "await" ->
                         /\ pending' = [pending EXCEPT ![caller] =
                              <<[budget |-> tokenLimit, stored |-> stored,
                                 recent |-> w.recent, tokenCount |-> w.tokenCount,
                                 input |-> plan.input,
                                 startId |-> plan.startId, endId |-> plan.endId]>>]
                         /\ ret' = [op |-> "getConversationContext", status |-> "pending"]
                         /\ UNCHANGED <<summaries, sumSeq>>
  /\ UNCHANGED <<messages, msgSeq, summarizer, savesSinceClear, issuedIds>>
  /\ UNCHANGED <<factVars, cronVars, botVars>>

\* mutant of summarizerResolves: the summarized messages deleted once their
\* summary is stored
summarizerResolvesCompacts(caller, summary) ==
  /\ pending[caller] # <<>>
  /\ LET p == pending[caller][1]
     IN /\ summaries' \in PruneKeeps(InsertSummary(p.startId, p.endId, summary))
        /\ sumSeq' = sumSeq + 1
        /\ ret' = ContextResult(p.budget, p.stored, p.recent, p.tokenCount, <<summary>>)
        /\ messages' = {m \in messages : m.id > p.endId}
  /\ pending' = [pending EXCEPT ![caller] = <<>>]
  /\ UNCHANGED <<msgSeq, summarizer, savesSinceClear, issuedIds>>
  /\ UNCHANGED <<factVars, cronVars, botVars>>

\* await this.summarizer(..) resolves with summary: getOrCreateSummary inserts,
\* prunes and returns it, and getConversationContext resolves
summarizerResolves(caller, summary) ==
  /\ pending[caller] # <<>>
  /\ LET p == pending[caller][1]
     IN /\ summaries' \in PruneKeeps(InsertSummary(p.startId, p.endId, summary))
        /\ sumSeq' = sumSeq + 1
        /\ ret' = ContextResult(p.budget, p.stored, p.recent, p.tokenCount, <<summary>>)
  /\ pending' = [pending EXCEPT ![caller] = <<>>]
  /\ UNCHANGED <<messages, msgSeq, summarizer, savesSinceClear, issuedIds>>
  /\ UNCHANGED <<factVars, cronVars, botVars>>

\* mutant of summarizerRejects: a catch that falls back to the basic summary
summarizerRejectsFallsBack(caller) ==
  /\ pending[caller] # <<>>
  /\ LET p == pending[caller][1]
         basic == createBasicSummary(SubSeq(p.stored, 1, Len(p.stored) - Len(p.recent)))
     IN /\ summaries' \in PruneKeeps(InsertSummary(p.startId, p.endId, basic))
        /\ sumSeq' = sumSeq + 1
        /\ ret' = ContextResult(p.budget, p.stored, p.recent, p.tokenCount, <<basic>>)
  /\ pending' = [pending EXCEPT ![caller] = <<>>]
  /\ UNCHANGED <<messages, msgSeq, summarizer, savesSinceClear, issuedIds>>
  /\ UNCHANGED <<factVars, cronVars, botVars>>

\* await this.summarizer(..) rejects: the rejection leaves getOrCreateSummary
\* and getConversationContext, nothing catches it
summarizerRejects(caller) ==
  /\ pending[caller] # <<>>
  /\ ret' = [op |-> "getConversationContext", status |-> "rejected",
             budget |-> pending[caller][1].budget, stored |-> pending[caller][1].stored]
  /\ pending' = [pending EXCEPT ![caller] = <<>>]
  /\ UNCHANGED <<messages, msgSeq, summaries, sumSeq, summarizer, savesSinceClear, issuedIds>>
  /\ UNCHANGED <<factVars, cronVars, botVars>>

(* --------------------------------------------------- fact store and index *)
\* hasEmbeddings() of ./embeddings: true once initEmbeddings has run
hasEmbeddings == embeddingsReady

FtsRow(f) == [rowid |-> f.id, category |-> f.category, subject |-> f.subject,
              content |-> f.content]
\* trigger facts_ai: AFTER INSERT ON facts
facts_ai(fts, new) == fts \cup {FtsRow(new)}
\* trigger facts_ad: AFTER DELETE ON facts (the FTS5 'delete' command with old's values)
facts_ad(fts, old) == fts \ {FtsRow(old)}
\* mutant of facts_au: the 'delete' of the old values left out
facts_auInsertOnly(fts, old, new) == fts \cup {FtsRow(new)}

\* trigger facts_au: AFTER UPDATE ON facts
facts_au(fts, old, new) == (fts \ {FtsRow(old)}) \cup {FtsRow(new)}

\* rebuildFtsIndex(): refill an empty index from the facts table
rebuildFtsIndex(fts, factRows) ==
  IF Cardinality(fts) = 0 /\ Cardinality(factRows) > 0
  THEN {FtsRow(f) : f \in factRows}
  ELSE fts

\* mutant of ForeignKeyOk: the constraint not enforced
ForeignKeyOff(factRows, factId) == TRUE

\* FOREIGN KEY (fact_id) REFERENCES facts(id): an insert into chunks needs its fact
ForeignKeyOk(factRows, factId) == \E f \in factRows : f.id = factId
\* ON DELETE CASCADE, and DELETE FROM chunks WHERE fact_id = ?
DeleteChunksOf(chunkRows, factIds) ==
  LET Keep(c) == c.fact_id \notin factIds IN SelectSeq(chunkRows, Keep)

\* mutant of ExistingFact: the two arguments bound in the wrong order
ExistingFactSwapped(category, subject) ==
  LET rows == {f \in facts : f.category = subject /\ f.subject = category}
  IN IF rows = {} THEN <<>> ELSE <<CHOOSE f \in rows : \A o \in rows : f.id <= o.id>>

\* SELECT id FROM facts WHERE category = ? AND subject = ? (.get(): the first row)
ExistingFact(category, subject) ==
  LET rows == {f \in facts : f.category = category /\ f.subject = subject}
  IN IF rows = {} THEN <<>> ELSE <<CHOOSE f \in rows : \A o \in rows : f.id <= o.id>>

\* `${fact.category}: ${fact.subject} - ${fact.content}`
textToEmbed(fact) ==
  Concat(T(fact.category \o ": " \o fact.subject \o " - "), fact.content)

\* saveFact(category, subject, content)
saveFact(category, subject, content) ==
  LET existing == ExistingFact(category, subject)
      factId == IF existing # <<>> THEN existing[1].id ELSE factSeq + 1
      new == [id |-> factId, category |-> category, subject |-> subject, content |-> content]
  IN /\ existing = <<>> => factSeq < MaxFactId
     /\ hasEmbeddings => BagCardinality(embedTasks) < MaxTasks
     /\ IF existing # <<>>
        THEN /\ facts' = (facts \ {existing[1]}) \cup {[existing[1] EXCEPT !.content = content]}
             /\ facts_fts' = facts_au(facts_fts, existing[1],
                                      [existing[1] EXCEPT !.content = content])
             /\ UNCHANGED factSeq
        ELSE /\ facts' = facts \cup {new}
             /\ facts_fts' = facts_ai(facts_fts, new)
             /\ factSeq' = factId
     /\ embedTasks' = IF hasEmbeddings THEN embedTasks (+) SetToBag({new}) ELSE embedTasks
     /\ ret' = [op |-> "saveFact", value |-> factId]
     /\ UNCHANGED <<chunks, embeddingsReady, backfill, unhandledRejections, embedLog>>
     /\ UNCHANGED <<convVars, cronVars, botVars>>

\* mutant of DeleteFacts: the return written changes >= 0
DeleteFactsAlwaysTrue(op, rows) ==
  /\ facts' = facts \ rows
  /\ facts_fts' = {e \in facts_fts : \A old \in rows : e \in facts_ad(facts_fts, old)}
  /\ chunks' = DeleteChunksOf(chunks, {f.id : f \in rows})
  /\ ret' = [op |-> op, value |-> Cardinality(rows) >= 0]
  /\ UNCHANGED <<factSeq, embeddingsReady, embedTasks, backfill, unhandledRejections, embedLog>>
  /\ UNCHANGED <<convVars, cronVars, botVars>>

\* DELETE FROM facts WHERE <rows>: triggers and cascade; returns changes > 0
DeleteFacts(op, rows) ==
  /\ facts' = facts \ rows
  /\ facts_fts' = {e \in facts_fts : \A old \in rows : e \in facts_ad(facts_fts, old)}
  /\ chunks' = DeleteChunksOf(chunks, {f.id : f \in rows})
  /\ ret' = [op |-> op, value |-> Cardinality(rows) > 0]
  /\ UNCHANGED <<factSeq, embeddingsReady, embedTasks, backfill, unhandledRejections, embedLog>>
  /\ UNCHANGED <<convVars, cronVars, botVars>>

\* deleteFact(id)
deleteFact(id) == DeleteFacts("deleteFact", {f \in facts : f.id = id})

\* deleteFactBySubject(category, subject)
deleteFactBySubject(category, subject) ==
  DeleteFacts("deleteFactBySubject",
              {f \in facts : f.category = category /\ f.subject = subject})

(* ------------------------------------------------------------ hybrid search *)
SeqToSet(q) == {q[i] : i \in 1..Len(q)}

\* query.replace(/['"]/g, '').trim()
EscapeQuery(query) == Trim(RemoveQuotes(query))

\* escapedQuery.split(/\s+/)
SplitWords(escapedQuery) == RunsFrom(escapedQuery, 1, "", SubSeq(Ascii, 2, Len(Ascii)))

\* the tokens FTS5's default tokenizer makes of a text: the lower-cased runs
\* of letters and digits
FtsTokens(str) == RunsFrom(ToLowerCase(str), 1, "", LowerCase \o Digits)

\* the texts of FactPool's columns and of the queries with their words
IndexedTexts ==
  UNION {{FactPool[i].category, FactPool[i].subject, FactPool[i].content.s} :
           i \in 1..Len(FactPool)}
  \cup UNION {{EscapeQuery(q)} \cup SeqToSet(SplitWords(EscapeQuery(q))) : q \in Queries}

\* FtsTokens, worked out once for each of these texts
FtsTokenTable == Tabulate(FtsTokens, IndexedTexts)
TokensOf(str) == IF str \in IndexedTexts THEN FtsTokenTable[str] ELSE FtsTokens(str)

\* the phrase p occurs in the column text col
PhraseIn(p, col) ==
  LET toks == TokensOf(col)
  IN /\ p # <<>>
     /\ \E i \in 1..(Len(toks) - Len(p) + 1) : SubSeq(toks, i, i + Len(p) - 1) = p

RowHasPhrase(e, p) ==
  PhraseIn(p, e.category) \/ PhraseIn(p, e.subject) \/ PhraseIn(p, e.content.s)

\* facts_fts MATCH `"${escapedQuery}" OR ${words.join(' OR ')}` on the index row e
\* (queries of letters, digits and blanks)
FtsMatch(e, escapedQuery, words) ==
  \/ RowHasPhrase(e, TokensOf(escapedQuery))
  \/ \E w \in SeqToSet(words) : RowHasPhrase(e, TokensOf(w))

\* the escaped query and its words, worked out once for each query
QueryWords(query) ==
  [escapedQuery |-> EscapeQuery(query), words |-> SplitWords(EscapeQuery(query))]
QueryTable == Tabulate(QueryWords, Queries)

\* the ids of the rows of facts_fts JOIN facts that match the query
MatchedIds(query) ==
  LET q == IF query \in Queries THEN QueryTable[query] ELSE QueryWords(query)
  IN IF q.escapedQuery = "" THEN {}
     ELSE {e.rowid : e \in {x \in facts_fts :
                              /\ \E f \in facts : f.id = x.rowid
                              /\ FtsMatch(x, q.escapedQuery, q.words)}}

\* ORDER BY rank: ids by falling |rank| (rank is negative), ties by rowid
RECURSIVE OrderByRank(_, _)
OrderByRank(ids, rank) ==
  IF ids = {} THEN <<>>
  ELSE LET m == CHOOSE x \in ids : \A y \in ids :
                  rank[x] > rank[y] \/ (rank[x] = rank[y] /\ x <= y)
       IN <<m>> \o OrderByRank(ids \ {m}, rank)

\* cosineSimilarity(a, b) in thousandths, for vectors of norm 25
cosineSimilarity(a, b) == (1000 * (a[1] * b[1] + a[2] * b[2])) \div 625

\* results.set(id, entry) on a Map kept as the sequence of its values
MapSet(results, entry) ==
  LET Put(r) == IF r.id = entry.id THEN entry ELSE r
  IN IF \E i \in 1..Len(results) : results[i].id = entry.id
     THEN MapSeq(Put, results)
     ELSE Append(results, entry)

\* the vector loop: chunks JOIN facts, newest first; stored[id] is the embedding
\* deserialized from the chunk of fact id
RECURSIVE VectorLoop(_, _, _, _, _)
VectorLoop(rows, i, results, queryEmbedding, stored) ==
  IF i > Len(rows) THEN results
  ELSE LET chunkEmbedding == stored[rows[i].fact_id]
           similarity == cosineSimilarity(queryEmbedding, chunkEmbedding)
       IN IF Len(chunkEmbedding) = 0 \/ Len(chunkEmbedding) # Len(queryEmbedding)
          THEN VectorLoop(rows, i + 1, results, queryEmbedding, stored)
          ELSE VectorLoop(rows, i + 1,
                 MapSet(results, [id |-> rows[i].fact_id, vector |-> similarity,
                                  rank |-> <<>>]),
                 queryEmbedding, stored)

\* the chunks the scan reads: chunks JOIN facts, newest first, LIMIT 500
ScannedChunks ==
  LET HasFact(c) == \E f \in facts : f.id = c.fact_id
  IN FirstN(Reverse(SelectSeq(chunks, HasFact)), CHUNK_SCAN_LIMIT)

\* mutant of VectorSearch: the scan's entries stay in results when the
\* sub-search throws
VectorSearchKept(vectorOk, queryEmbedding, stored) ==
  IF hasEmbeddings
  THEN VectorLoop(ScannedChunks, 1, <<>>, queryEmbedding, stored)
  ELSE <<>>

\* step 1, the vector search in its try/catch: results as it leaves them.
\* embed(query) and the scan throw before an entry is set.
VectorSearch(vectorOk, queryEmbedding, stored) ==
  IF hasEmbeddings /\ vectorOk
  THEN VectorLoop(ScannedChunks, 1, <<>>, queryEmbedding, stored)
  ELSE <<>>

\* the keyword loop over ftsResults (ids in rank order)
RECURSIVE KeywordLoop(_, _, _, _)
KeywordLoop(ftsResults, i, results, rank) ==
  IF i > Len(ftsResults) THEN results
  ELSE LET id == ftsResults[i]
           Update(r) == IF r.id = id THEN [r EXCEPT !.rank = <<rank[id]>>] ELSE r
       IN KeywordLoop(ftsResults, i + 1,
            IF \E j \in 1..Len(results) : results[j].id = id
            THEN MapSeq(Update, results)
            ELSE Append(results, [id |-> id, vector |-> 0, rank |-> <<rank[id]>>]),
            rank)

\* mutant of SortByScore: (a, b) => a.score - b.score, by rising score
RECURSIVE SortByScoreRising(_)
SortByScoreRising(results) ==
  LET Sorted(q) ==
        IF q = <<>> THEN <<>>
        ELSE LET i == CHOOSE k \in 1..Len(q) :
                        /\ \A j \in 1..Len(q) : q[j].score >= q[k].score
                        /\ \A j \in 1..(k - 1) : q[j].score > q[k].score
             IN <<q[i]>> \o SortByScoreRising(SubSeq(q, 1, i - 1) \o SubSeq(q, i + 1, Len(q)))
  IN CHOOSE sorted \in {Sorted(q) : q \in {results}} : TRUE

\* results.sort((a, b) => b.score - a.score): stable, by falling score
\* (q \in {results} works the argument out once)
RECURSIVE SortByScore(_)
SortByScore(results) ==
  LET Sorted(q) ==
        IF q = <<>> THEN <<>>
        ELSE LET i == CHOOSE k \in 1..Len(q) :
                        /\ \A j \in 1..Len(q) : q[j].score <= q[k].score
                        /\ \A j \in 1..(k - 1) : q[j].score < q[k].score
             IN <<q[i]>> \o SortByScore(SubSeq(q, 1, i - 1) \o SubSeq(q, i + 1, Len(q)))
  IN CHOOSE sorted \in {Sorted(q) : q \in {results}} : TRUE

\* searchFactsHybrid(query).  The call awaits embed(query) once, before it
\* reads any table; this is the step from that point to the return.
\*   vectorOk: embed(query) resolves and the chunk scan does not throw
\*   keywordOk: the FTS query does not throw
\*   rank[id]: |bm25| of the matched row id, in thousandths
\* A score s stands for s / scale, a keywordScore k for k / maxRank, a
\* vectorScore v for v / 1000.
\* An entry of results also keeps, in rank, <<|bm25|>> of its row when the
\* keyword search matched it.
searchFactsHybrid(query, vectorOk, keywordOk, queryEmbedding, stored, rank) ==
  LET embeddingsAvailable == hasEmbeddings
      vectorWeight == IF embeddingsAvailable THEN VECTOR_WEIGHT ELSE 0
      keywordWeight == IF embeddingsAvailable THEN KEYWORD_WEIGHT ELSE KEYWORD_ONLY_WEIGHT
      scoreThreshold == IF embeddingsAvailable THEN MIN_SCORE_THRESHOLD
                        ELSE KEYWORD_ONLY_THRESHOLD
      afterVector == VectorSearch(vectorOk, queryEmbedding, stored)
  IN \E ftsResults \in {IF keywordOk
                         THEN FirstN(OrderByRank(MatchedIds(query), rank), FTS_LIMIT)
                         ELSE <<>>} :
     \E maxRank \in {LET ranks == {rank[id] : id \in SeqToSet(ftsResults)} \cup {RANK_FLOOR}
                      IN CHOOSE r \in ranks : \A o \in ranks : o <= r} :
     \E merged \in {KeywordLoop(ftsResults, 1, afterVector, rank)} :
       LET scale == 10 * 1000 * maxRank
           Entry(e) ==
             LET normalizedScore == IF e.rank = <<>> THEN 0 ELSE maxRank - e.rank[1]
             IN [id |-> e.id,
                 score |-> vectorWeight * e.vector * maxRank
                           + keywordWeight * 1000 * normalizedScore,
                 vectorScore |-> e.vector,
                 keywordScore |-> normalizedScore,
                 rank |-> e.rank,
                 matched |-> e.rank # <<>>]
           Passes(r) == r.score * 100 >= scoreThreshold * scale
       IN \E results \in {MapSeq(Entry, merged)} :
            LET sortedResults == FirstN(SortByScore(SelectSeq(results, Passes)),
                                        MAX_SEARCH_RESULTS)
            IN /\ ret' = [op |-> "searchFactsHybrid", query |-> query,
                          embeddingsAvailable |-> embeddingsAvailable,
                          vectorOk |-> vectorOk, keywordOk |-> keywordOk,
                          scale |-> scale, maxRank |-> maxRank,
                          scoreThreshold |-> scoreThreshold,
                          results |-> results, value |-> sortedResults]
               /\ UNCHANGED <<convVars, factVars, cronVars, botVars>>

(* --------------------------------------------------------------- fact graph *)
\* the categories and subjects of FactPool
SortKeys ==
  UNION {{FactPool[i].category, FactPool[i].subject} : i \in 1..Len(FactPool)}
\* StrLess, worked out once for each pair of them
StrLessTable ==
  LET Less(pair) == StrLess(pair[1], pair[2]) IN Tabulate(Less, SortKeys \X SortKeys)
Collates(a, b) ==
  IF a \in SortKeys /\ b \in SortKeys THEN StrLessTable[<<a, b>>] ELSE StrLess(a, b)

\* SELECT .. FROM facts ORDER BY category, subject
RECURSIVE OrderByCategorySubject(_)
OrderByCategorySubject(S) ==
  IF S = {} THEN <<>>
  ELSE LET Before(x, y) ==
             \/ Collates(x.category, y.category)
             \/ x.category = y.category /\ Collates(x.subject, y.subject)
             \/ x.category = y.category /\ x.subject = y.subject /\ x.id <= y.id
           m == CHOOSE x \in S : \A y \in S : x = y \/ Before(x, y)
       IN <<m>> \o OrderByCategorySubject(S \ {m})

\* mutant of getAllFacts: the rows in rowid order
getAllFactsByRowid == OrderByIdAsc(facts)

\* getAllFacts()
getAllFacts == OrderByCategorySubject(facts)

\* mutant of CategoryGroup: categoryGroups[category] ?? 0
CategoryGroupZero(category) ==
  CASE category = "user_info" -> 0
    [] category = "preferences" -> 1
    [] category = "projects" -> 2
    [] category = "people" -> 3
    [] category = "work" -> 4
    [] category = "notes" -> 5
    [] category = "decisions" -> 6
    [] OTHER -> 0

\* categoryGroups[category] ?? 7
CategoryGroup(category) ==
  CASE category = "user_info" -> 0
    [] category = "preferences" -> 1
    [] category = "projects" -> 2
    [] category = "people" -> 3
    [] category = "work" -> 4
    [] category = "notes" -> 5
    [] category = "decisions" -> 6
    [] OTHER -> OTHER_GROUP

GraphNode(fact) ==
  [id |-> fact.id,
   subject |-> IF fact.subject # "" THEN fact.subject
               ELSE Slice(fact.content, NODE_SUBJECT_CHARS).s,
   category |-> fact.category, content |-> fact.content,
   group |-> CategoryGroup(fact.category)]

\* mutant of addLink: no key is kept, and a link is pushed for each direction
addLinkMirrored(g, source, target, type, strength) ==
  [links |-> g.links \o <<[source |-> source, target |-> target, type |-> type,
                           strength |-> strength],
                          [source |-> target, target |-> source, type |-> type,
                           strength |-> strength]>>,
   linkSet |-> g.linkSet]

\* addLink(source, target, type, strength) on g = [links, linkSet]
addLink(g, source, target, type, strength) ==
  LET key == <<IF source < target THEN source ELSE target,
               IF source < target THEN target ELSE source, type>>
  IN IF key \notin g.linkSet /\ source # target
     THEN [links |-> Append(g.links, [source |-> source, target |-> target,
                                      type |-> type, strength |-> strength]),
           linkSet |-> g.linkSet \cup {key}]
     ELSE g

\* the calls <<source, target, type, strength>> made one after another
RECURSIVE AddLinks(_, _)
AddLinks(g, calls) ==
  IF calls = <<>> THEN g
  ELSE AddLinks(addLink(g, calls[1][1], calls[1][2], calls[1][3], calls[1][4]), Tail(calls))

\* for (i = 0; i < n; i++) for (j = i + 1; j < Math.min(i + width, n); j++):
\* the <<i, j>> in loop order, counted from 1
RECURSIVE LoopPairs(_, _, _)
LoopPairs(i, n, width) ==
  IF i > n THEN <<>>
  ELSE LET last == IF i + width - 1 < n THEN i + width - 1 ELSE n
       IN [k \in 1..(last - i) |-> <<i, i + k>>] \o LoopPairs(i + 1, n, width)

RECURSIVE Flatten(_)
Flatten(qq) == IF qq = <<>> THEN <<>> ELSE qq[1] \o Flatten(Tail(qq))

\* mutant of CategoryCalls: every later fact of the category is linked
CategoryCallsUnbounded(list) ==
  LET categories == Distinct([i \in 1..Len(list) |-> list[i].category])
      OfCategory(c) == LET In(f) == f.category = c IN SelectSeq(list, In)
      Calls(categoryFacts) ==
        LET pairs == LoopPairs(1, Len(categoryFacts), Len(categoryFacts) + 1)
        IN [k \in 1..Len(pairs) |->
              <<categoryFacts[pairs[k][1]].id, categoryFacts[pairs[k][2]].id,
                "category", CATEGORY_STRENGTH>>]
  IN Flatten([c \in 1..Len(categories) |-> Calls(OfCategory(categories[c]))])

\* 1. category connections: the addLink calls, over getAllFacts() grouped by
\* category in order of first appearance
CategoryCalls(list) ==
  LET categories == Distinct([i \in 1..Len(list) |-> list[i].category])
      OfCategory(c) == LET In(f) == f.category = c IN SelectSeq(list, In)
      Calls(categoryFacts) ==
        LET pairs == LoopPairs(1, Len(categoryFacts), CATEGORY_WINDOW)
        IN [k \in 1..Len(pairs) |->
              <<categoryFacts[pairs[k][1]].id, categoryFacts[pairs[k][2]].id,
                "category", CATEGORY_STRENGTH>>]
  IN Flatten([c \in 1..Len(categories) |-> Calls(OfCategory(categories[c]))])

\* 2. semantic connections: the addLink calls; stored[id] is the embedding
\* deserialized from the chunk of fact id
SemanticCalls(stored) ==
  LET rows == FirstN(Reverse(chunks), MAX_SEMANTIC_COMPARISONS)
      Valid(c) == Len(stored[c.fact_id]) > 0
      factIds == Distinct([i \in 1..Len(SelectSeq(rows, Valid)) |->
                             SelectSeq(rows, Valid)[i].fact_id])
      compared == FirstN(LoopPairs(1, Len(factIds), Len(factIds) + 1), MAX_COMPARISONS)
      Similarity(p) == cosineSimilarity(stored[factIds[p[1]]], stored[factIds[p[2]]])
      Linked(p) == /\ Len(stored[factIds[p[1]]]) = Len(stored[factIds[p[2]]])
                   /\ Similarity(p) >= SEMANTIC_MIN
      linked == SelectSeq(compared, Linked)
  IN [k \in 1..Len(linked) |->
        <<factIds[linked[k][1]], factIds[linked[k][2]], "semantic", Similarity(linked[k])>>]

COMMON_WORDS ==
  {"the", "and", "for", "are", "but", "not", "you", "all", "can", "her", "was", "one",
   "our", "out", "has", "have", "been", "this", "that", "they", "from", "with", "will",
   "what", "when", "where", "which", "their", "about", "would", "there", "could", "other",
   "into", "than", "then", "them", "these", "some", "like", "just", "only", "over", "such",
   "make", "made", "also", "most", "very", "does", "being", "those", "after", "before"}

\* extractKeywords(text): text.toLowerCase().match(/\b[a-z]{4,}\b/g) without
\* the common words
extractKeywords(text) ==
  LET runs == SeqToSet(RunsFrom(ToLowerCase(text), 1, "", LowerCase \o Digits \o "_"))
      Letters(w) == \A i \in 1..Len(w) : IndexOf(SubSeq(w, i, i), LowerCase) # 0
  IN {w \in runs : Letters(w) /\ Len(w) >= KEYWORD_MIN_LENGTH /\ w \notin COMMON_WORDS}

\* `${fact.subject} ${fact.content}`
KeywordText(fact) == fact.subject \o " " \o fact.content.s
\* extractKeywords, worked out once for each fact of FactPool
KeywordTable ==
  Tabulate(extractKeywords, {KeywordText(FactPool[i]) : i \in 1..Len(FactPool)})
KeywordsOf(text) ==
  IF text \in DOMAIN KeywordTable THEN KeywordTable[text] ELSE extractKeywords(text)

\* 3. keyword connections: the addLink calls
KeywordCalls(list) ==
  LET factsToProcess == FirstN(list, MAX_KEYWORD_FACTS)
      kw == [i \in 1..Len(factsToProcess) |-> KeywordsOf(KeywordText(factsToProcess[i]))]
      HasA(p) == kw[p[1]] # {}
      compared == FirstN(SelectSeq(LoopPairs(1, Len(factsToProcess),
                                             Len(factsToProcess) + 1), HasA),
                         MAX_KEYWORD_COMPARISONS)
      Shared(p) == Cardinality(kw[p[1]] \cap kw[p[2]])
      Linked(p) == kw[p[2]] # {} /\ Shared(p) >= KEYWORD_MIN_SHARED
      linked == SelectSeq(compared, Linked)
      Strength(p) == IF Shared(p) >= KEYWORD_FULL_SHARED THEN 1000
                     ELSE (1000 * Shared(p)) \div KEYWORD_FULL_SHARED
  IN [k \in 1..Len(linked) |->
        <<factsToProcess[linked[k][1]].id, factsToProcess[linked[k][2]].id,
          "keyword", Strength(linked[k])>>]

\* lines.join('\n')
RECURSIVE JoinLines(_)
JoinLines(lines) ==
  IF lines = <<>> THEN T("")
  ELSE IF Len(lines) = 1 THEN lines[1]
  ELSE Concat(lines[1], Concat(T("\n"), JoinLines(Tail(lines))))

\* the lines getFactsForContext pushes for list, grouped by category in order
\* of first appearance
ContextLines(list) ==
  LET categories == Distinct([i \in 1..Len(list) |-> list[i].category])
      OfCategory(c) == LET In(f) == f.category = c IN SelectSeq(list, In)
      FactLine(fact) ==
        IF fact.subject # ""
        THEN Concat(T("- **" \o fact.subject \o "**: "), fact.content)
        ELSE Concat(T("- "), fact.content)
      Section(c) == <<T("\n### " \o c)>> \o MapSeq(FactLine, OfCategory(c))
  IN <<T("## Known Facts")>> \o Flatten(MapSeq(Section, categories))

\* the string getFactsForContext returns for the rows getAllFacts() gave
FactsText(list) == IF Len(list) = 0 THEN T("") ELSE JoinLines(ContextLines(list))

\* mutant of PairRow: the counter is kept and never tested
PairRowUncapped(skipped, i, w, cap) ==
  IF skipped[i] THEN [w EXCEPT !.iterations = @ + 1]
  ELSE [w EXCEPT !.compared = @ + (Len(skipped) - i),
                 !.iterations = @ + 1 + (Len(skipped) - i)]

\* outer: for (i = 0; i < n; i++) { [if (..) continue;]
\*   for (j = i + 1; j < n; j++) { if (++comparisons > cap) break outer; .. } }
\* one pass of the outer loop, for row i counted from 1.  skipped[i]: the row
\* leaves at the continue before its inner loop.  w.compared: the pairs that
\* passed the test of the counter; w.iterations: the bodies entered, of both
\* loops; w.stopped: break outer was taken.
PairRow(skipped, i, w, cap) ==
  IF skipped[i] THEN [w EXCEPT !.iterations = @ + 1]
  ELSE IF w.compared + (Len(skipped) - i) > cap
    THEN [compared |-> cap, stopped |-> TRUE,
          iterations |-> w.iterations + 1 + (cap - w.compared) + 1]
  ELSE [w EXCEPT !.compared = @ + (Len(skipped) - i),
                 !.iterations = @ + 1 + (Len(skipped) - i)]

\* the passes for the rows i..last, and the whole loop taken PAIR_ROWS rows at a
\* time (which keeps the evaluation shallow)
RECURSIVE PairRows(_, _, _, _, _)
PairRows(skipped, i, last, w, cap) ==
  IF i > last \/ w.stopped THEN w
  ELSE PairRows(skipped, i + 1, last, PairRow(skipped, i, w, cap), cap)

RECURSIVE PairLoop(_, _, _, _)
PairLoop(skipped, i, w, cap) ==
  IF i > Len(skipped) \/ w.stopped THEN w
  ELSE LET last == IF i + 19 < Len(skipped) THEN i + 19 ELSE Len(skipped)
       IN PairLoop(skipped, i + 20, PairRows(skipped, i, last, w, cap), cap)

\* getFactsGraphData(), the work of its semantic and keyword loops over a store
\* of rows facts, each with its chunk: what they read and how often they
\* compare (the links are those of getFactsGraphData above).
\*   embeddings: hasEmbeddings()
\*   invalid: the chunks read whose embedding deserializes to nothing
\*   pattern: the facts whose extractKeywords is not empty
getFactsGraphDataWork(rows, embeddings, invalid, pattern) ==
  LET start == [compared |-> 0, stopped |-> FALSE, iterations |-> 0]
      chunksRead == IF ~embeddings THEN 0
                    ELSE IF rows < MAX_SEMANTIC_COMPARISONS THEN rows
                    ELSE MAX_SEMANTIC_COMPARISONS
      factIds == IF chunksRead < invalid THEN 0 ELSE chunksRead - invalid
      factsToProcess == IF rows < MAX_KEYWORD_FACTS THEN rows ELSE MAX_KEYWORD_FACTS
      noKeywords == [i \in 1..factsToProcess |->
                       pattern = "none" \/ (pattern = "thirds" /\ i % 3 = 0)]
  IN /\ ret' = [op |-> "getFactsGraphDataWork", rows |-> rows, embeddings |-> embeddings,
                chunksRead |-> chunksRead,
                semantic |-> PairLoop([i \in 1..factIds |-> FALSE], 1, start,
                                      MAX_COMPARISONS),
                factsProcessed |-> factsToProcess,
                keyword |-> PairLoop(noKeywords, 1, start, MAX_KEYWORD_COMPARISONS)]
     /\ UNCHANGED <<convVars, factVars, cronVars, botVars>>

\* getFactsForContext()
getFactsForContext ==
  /\ ret' = [op |-> "getFactsForContext", value |-> FactsText(getAllFacts)]
  /\ UNCHANGED <<convVars, factVars, cronVars, botVars>>

\* getFactsGraphData()
getFactsGraphData(stored) ==
  /\ LET list == getAllFacts
         calls == CategoryCalls(list)
                  \o (IF hasEmbeddings THEN SemanticCalls(stored) ELSE <<>>)
                  \o KeywordCalls(list)
         g == AddLinks([links |-> <<>>, linkSet |-> {}], calls)
     IN ret' = [op |-> "getFactsGraphData",
                nodes |-> [i \in 1..Len(list) |-> GraphNode(list[i])],
                links |-> IF list = <<>> THEN <<>> ELSE g.links]
  /\ UNCHANGED <<convVars, factVars, cronVars, botVars>>

(* --------------------------------------------------------- embedding cache *)
\* mutant of ChunksAfterEmbed: the INSERT without the DELETE before it
ChunksAfterEmbedNoDelete(fact, providerOk) ==
  IF ~providerOk THEN chunks
  ELSE IF ForeignKeyOk(facts, fact.id)
       THEN Append(chunks, [fact_id |-> fact.id, content |-> textToEmbed(fact)])
       ELSE chunks

\* embedFact(fact) after await embed(textToEmbed) settled: the chunks table.
\* A provider error, or the foreign key refusing the insert, ends in the catch.
ChunksAfterEmbed(fact, providerOk) ==
  IF ~providerOk THEN chunks
  ELSE LET deleted == DeleteChunksOf(chunks, {fact.id})
       IN IF ForeignKeyOk(facts, fact.id)
          THEN Append(deleted, [fact_id |-> fact.id, content |-> textToEmbed(fact)])
          ELSE deleted

\* the error embedFact(fact) throws into its catch: "none" when it does not
EmbedError(fact, providerOk) ==
  IF ~providerOk THEN "provider"
  ELSE IF ~ForeignKeyOk(facts, fact.id) THEN "constraint"
  ELSE "none"

\* mutant of embedFactCatch: a catch that undoes the save of the fact
embedFactCatchRollsBack(fact, err) ==
  [facts |-> IF err = "none" THEN facts ELSE {f \in facts : f.id # fact.id},
   rejected |-> FALSE, log |-> IF err = "none" THEN embedLog ELSE err]

\* mutant of embedFactCatch: a catch that logs and throws the error again
embedFactCatchRethrows(fact, err) ==
  [facts |-> facts, rejected |-> err # "none", log |-> IF err = "none" THEN embedLog ELSE err]

\* embedFact's try { .. } catch (err) { console.error(..) } around an attempt
\* that threw err ("none": did not throw): the facts table is not touched,
\* the error is logged and the promise resolves.
embedFactCatch(fact, err) ==
  [facts |-> facts, rejected |-> FALSE, log |-> IF err = "none" THEN embedLog ELSE err]

\* the embedFact a saveFact started settles; saveFact's .catch(..) handles a rejection
embedFactCompletes(fact, providerOk) ==
  /\ BagIn(fact, embedTasks)
  /\ embedTasks' = embedTasks (-) SetToBag({fact})
  /\ chunks' = ChunksAfterEmbed(fact, providerOk)
  /\ LET caught == embedFactCatch(fact, EmbedError(fact, providerOk))
         handled == TRUE
     IN /\ facts' = caught.facts
        /\ embedLog' = caught.log
        /\ unhandledRejections' =
             unhandledRejections + (IF caught.rejected /\ ~handled THEN 1 ELSE 0)
  /\ UNCHANGED <<factSeq, facts_fts, embeddingsReady, backfill, ret>>
  /\ UNCHANGED <<convVars, cronVars, botVars>>

\* SELECT f.* FROM facts f LEFT JOIN chunks c ON f.id = c.fact_id WHERE c.id IS NULL
\* (taken in rowid order)
FactsWithoutEmbeddings ==
  OrderByIdAsc({f \in facts : ~\E i \in 1..Len(chunks) : chunks[i].fact_id = f.id})

\* initializeEmbeddings(key): embedMissingFacts runs up to its first await
initializeEmbeddings ==
  /\ backfill = <<>>
  /\ embeddingsReady' = TRUE
  /\ backfill' = FactsWithoutEmbeddings
  /\ ret' = [op |-> "initializeEmbeddings"]
  /\ UNCHANGED <<facts, factSeq, facts_fts, chunks, embedTasks, unhandledRejections, embedLog>>
  /\ UNCHANGED <<convVars, cronVars, botVars>>

\* embedMissingFacts: await this.embedFact(fact) settles and the loop goes on
embedMissingFactsStep(providerOk) ==
  /\ backfill # <<>>
  /\ LET fact == Head(backfill)
         caught == embedFactCatch(fact, EmbedError(fact, providerOk))
         handled == TRUE
     IN /\ chunks' = ChunksAfterEmbed(fact, providerOk)
        /\ facts' = caught.facts
        /\ embedLog' = caught.log
        /\ backfill' = IF caught.rejected THEN <<>> ELSE Tail(backfill)
        /\ unhandledRejections' =
             unhandledRejections + (IF caught.rejected /\ ~handled THEN 1 ELSE 0)
  /\ UNCHANGED <<factSeq, facts_fts, embeddingsReady, embedTasks, ret>>
  /\ UNCHANGED <<convVars, cronVars, botVars>>

(* ---------------------------------------------------------------- cron jobs *)
\* saveCronJob(name, schedule, prompt, channel): INSERT .. ON CONFLICT(name) DO UPDATE
saveCronJob(name, schedule, prompt, channel) ==
  LET rows == {j \in cron_jobs : j.name = name}
  IN /\ rows = {} => cronSeq < MaxCronId
     /\ IF rows = {}
        THEN /\ cron_jobs' = cron_jobs \cup
                  {[id |-> cronSeq + 1, name |-> name, schedule |-> schedule,
                    prompt |-> prompt, channel |-> channel, enabled |-> TRUE]}
             /\ cronSeq' = cronSeq + 1
        ELSE /\ cron_jobs' = (cron_jobs \ rows) \cup
                  {[j EXCEPT !.schedule = schedule, !.prompt = prompt,
                             !.channel = channel] : j \in rows}
             /\ UNCHANGED cronSeq
     /\ ret' = [op |-> "saveCronJob"]
     /\ UNCHANGED <<convVars, factVars, botVars>>

\* deleteCronJob(name)
deleteCronJob(name) ==
  /\ cron_jobs' = {j \in cron_jobs : j.name # name}
  /\ ret' = [op |-> "deleteCronJob", value |-> \E j \in cron_jobs : j.name = name]
  /\ UNCHANGED <<cronSeq, convVars, factVars, botVars>>

(* ------------------------------------------------------------- TelegramBot *)
\* this.bot.use(async (ctx, next) => ..) and, after next(), the handler of the
\* update.  What the handlers do through AgentManager is not part of the model.
middleware(userId, chatId, handler) ==
  LET isNew == chatId \notin activeChatIds
      authorized == allowedUserIds = {} \/ (userId # 0 /\ userId \in allowedUserIds)
  IN /\ activeChatIds' = IF chatId # 0 THEN activeChatIds \cup {chatId} ELSE activeChatIds
     /\ persistedChatIds' = IF chatId # 0 /\ isNew THEN activeChatIds \cup {chatId}
                            ELSE persistedChatIds
     /\ passedChatIds' = IF authorized /\ chatId # 0 THEN passedChatIds \cup {chatId}
                         ELSE passedChatIds
     /\ ret' = [op |-> "update", userId |-> userId, chatId |-> chatId,
                handler |-> IF authorized THEN handler ELSE "none",
                reply |-> IF authorized THEN "handler"
                          ELSE "Sorry, you are not authorized to use this bot."]
     /\ UNCHANGED <<allowedUserIds, convVars, factVars, cronVars>>

\* broadcast(text): sendMessage to every active chat; it sends nothing while
\* the bot is not running, and returns false for the chats the API refuses
BroadcastResult(op, running, refused) ==
  [op |-> op,
   attempted |-> IF running THEN activeChatIds ELSE {},
   sent |-> IF running THEN Cardinality(activeChatIds \ refused) ELSE 0]

broadcast(running, refused) ==
  /\ ret' = BroadcastResult("broadcast", running, refused)
  /\ UNCHANGED <<botVars, convVars, factVars, cronVars>>

\* syncFromDesktop(userMessage, response): return this.broadcast(text)
syncFromDesktop(running, refused) ==
  /\ ret' = BroadcastResult("syncFromDesktop", running, refused)
  /\ UNCHANGED <<botVars, convVars, factVars, cronVars>>

\* addAllowedUser(userId)
addAllowedUser(userId) ==
  /\ allowedUserIds' = allowedUserIds \cup {userId}
  /\ ret' = [op |-> "addAllowedUser"]
  /\ UNCHANGED <<activeChatIds, persistedChatIds, passedChatIds, convVars, factVars, cronVars>>

\* removeAllowedUser(userId)
removeAllowedUser(userId) ==
  /\ allowedUserIds' = allowedUserIds \ {userId}
  /\ ret' = [op |-> "removeAllowedUser"]
  /\ UNCHANGED <<activeChatIds, persistedChatIds, passedChatIds, convVars, factVars, cronVars>>

(* ------------------------------------------------------------ specification *)
Init ==
  /\ messages = {}
  /\ msgSeq = 0
  /\ summaries = {}
  /\ sumSeq = 0
  /\ summarizer = FALSE
  /\ pending = NoPending
  /\ ret = [op |-> "constructor"]
  /\ savesSinceClear = 0
  /\ issuedIds = {}
  /\ facts = {}
  /\ factSeq = 0
  /\ facts_fts = rebuildFtsIndex({}, {})
  /\ chunks = <<>>
  /\ embeddingsReady = FALSE
  /\ embedTasks = EmptyBag
  /\ backfill = <<>>
  /\ unhandledRejections = 0
  /\ embedLog = "none"
  /\ cron_jobs = {}
  /\ cronSeq = 0
  /\ allowedUserIds = {}
  /\ activeChatIds = {}
  /\ persistedChatIds = {}
  /\ passedChatIds = {}

NextConv ==
  \/ msgSeq < MaxConvMsgId /\ \E in \in MsgInputs : saveMessage(in[1], in[2])
  \/ clearConversation
  \/ setSummarizer
  \/ /\ sumSeq + NumPending < MaxConvSummaryId
     /\ \E caller \in Callers, tokenLimit \in Budgets :
          getConversationContext(caller, tokenLimit)
  \/ \E caller \in Callers, summary \in SummarizerOutputs : summarizerResolves(caller, summary)
  \/ \E caller \in Callers : summarizerRejects(caller)

NextFacts ==
  \/ \E key \in FactKeys, content \in FactContents : saveFact(key[1], key[2], content)
  \/ \E id \in 1..MaxFactId : deleteFact(id)
  \/ \E key \in FactKeys : deleteFactBySubject(key[1], key[2])
  \/ initializeEmbeddings
  \/ \E fact \in BagToSet(embedTasks), providerOk \in BOOLEAN :
       embedFactCompletes(fact, providerOk)
  \/ \E providerOk \in BOOLEAN : embedMissingFactsStep(providerOk)

NextCron ==
  \/ \E job \in CronInputs : saveCronJob(job[1], job[2], job[3], job[4])
  \/ \E job \in CronInputs : deleteCronJob(job[1])

\* every operation
Next == NextConv \/ NextFacts \/ NextCron

Spec == Init /\ [][Next]_vars

\* One process using all the tables at once, with no summarizer configured:
\* one kind of message, one token limit, one fact key, a provider that answers,
\* and nothing deleted but the conversation.
NextStore ==
  \/ saveMessage("user", T("hi"))
  \/ clearConversation
  \/ getConversationContext(1, reservedTokens + 1)
  \/ \E content \in FactContents : saveFact("user_info", "name", content)
  \/ initializeEmbeddings
  \/ \E fact \in BagToSet(embedTasks) : embedFactCompletes(fact, TRUE)
  \/ embedMissingFactsStep(TRUE)
  \/ \E job \in CronInputs : saveCronJob(job[1], job[2], job[3], job[4])

SpecStore == Init /\ [][NextStore]_vars

\* the conversation store and the summarization pipeline
SpecConv == Init /\ [][NextConv]_vars
\* the fact store, its index and the embedding cache
SpecFacts == Init /\ [][NextFacts]_vars

\* for (const fact of factsWithoutEmbeddings) await this.embedFact(fact): the
\* provider call the loop awaits settles, resolved or rejected
embedSettles == \E providerOk \in BOOLEAN : embedMissingFactsStep(providerOk)

\* the fact store where every provider call of the backfill settles in the end
SpecBackfill == Init /\ [][NextFacts]_vars /\ WF_vars(embedSettles)

\* the summaries of a long conversation: one kind of message (1 token), two
\* token limits, one summarizer output, two callers that may overlap, the clear
NextSummaries ==
  \/ saveMessage("user", T("hi"))
  \/ clearConversation
  \/ setSummarizer
  \/ \E caller \in Callers, tokenLimit \in DeepBudgets :
       getConversationContext(caller, tokenLimit)
  \/ \E caller \in Callers : summarizerResolves(caller, T("Custom summary"))

SpecSummaries == Init /\ [][NextSummaries]_vars

\* the message log: saves, the clear, and the two read-only reports
NextLog ==
  \/ \E in \in LogInputs : saveMessage(in[1], in[2])
  \/ clearConversation
  \/ getStats
  \/ \E limit \in Limits : getRecentMessages(limit)

SpecLog == Init /\ [][NextLog]_vars

\* facts saved, updated and deleted in any order, and the text listing them
NextContext ==
  \/ \E key \in ContextKeys, content \in FactContents : saveFact(key[1], key[2], content)
  \/ \E key \in ContextKeys : deleteFactBySubject(key[1], key[2])
  \/ getFactsForContext

SpecContext == Init /\ [][NextContext]_vars

\* a MemoryManager constructed over the database of earlier sessions: the
\* facts table holds a prefix of FactPool, nothing is embedded yet
InitStored ==
  /\ messages = {}
  /\ msgSeq = 0
  /\ summaries = {}
  /\ sumSeq = 0
  /\ summarizer = FALSE
  /\ pending = NoPending
  /\ ret = [op |-> "constructor"]
  /\ savesSinceClear = 0
  /\ issuedIds = {}
  /\ \E k \in 0..Len(FactPool) :
       /\ facts = {[id |-> i, category |-> FactPool[i].category,
                    subject |-> FactPool[i].subject, content |-> FactPool[i].content] :
                   i \in 1..k}
       /\ factSeq = k
       /\ facts_fts = rebuildFtsIndex({}, facts)
  /\ chunks = <<>>
  /\ embeddingsReady = FALSE
  /\ embedTasks = EmptyBag
  /\ backfill = <<>>
  /\ unhandledRejections = 0
  /\ embedLog = "none"
  /\ cron_jobs = {}
  /\ cronSeq = 0
  /\ allowedUserIds = {}
  /\ activeChatIds = {}
  /\ persistedChatIds = {}
  /\ passedChatIds = {}

\* searches over the stored facts while the backfill embeds them.  Where a
\* sub-search does not run or fails, its inputs are not read and one value
\* stands for all.  bm25 gives every match the same |rank| below 0.001 when
\* the query's terms are in half the rows or more.
NextSearch ==
  \/ initializeEmbeddings
  \/ embedMissingFactsStep(TRUE)
  \/ \E query \in Queries, vectorOk, keywordOk \in BOOLEAN :
       /\ ~hasEmbeddings => vectorOk
       /\ \E evenRanks \in {\/ ~keywordOk
                            \/ MatchedIds(query) = {}
                            \/ 2 * Cardinality(MatchedIds(query)) >= Cardinality(facts_fts)} :
          \E queryEmbedding \in Vectors, stored \in EmbeddingProfiles, rank \in RankProfiles :
            /\ (~hasEmbeddings \/ ~vectorOk) =>
                  queryEmbedding = <<25, 0>> /\ \A id \in DOMAIN stored : stored[id] = <<25, 0>>
            /\ evenRanks => \A id \in DOMAIN rank : rank[id] = 1
            /\ searchFactsHybrid(query, vectorOk, keywordOk, queryEmbedding, stored, rank)

SpecSearch == InitStored /\ [][NextSearch]_vars

\* the fact graph over the stored facts while the backfill embeds them
NextGraph ==
  \/ initializeEmbeddings
  \/ embedMissingFactsStep(TRUE)
  \/ \E stored \in EmbeddingProfiles : getFactsGraphData(stored)

SpecGraph == InitStored /\ [][NextGraph]_vars

\* the loops of the fact graph on their own, over stores of up to MaxGraphRows
\* facts; the rows are not kept in the tables of the model.  No chunk is read
\* without hasEmbeddings(), so invalid is 0 then.
NextGraphWork ==
  \E rows \in GraphSizes, embeddings \in BOOLEAN, invalid \in {0, 1},
     pattern \in KeywordPatterns :
    /\ ~embeddings => invalid = 0
    /\ getFactsGraphDataWork(rows, embeddings, invalid, pattern)

SpecGraphWork == Init /\ [][NextGraphWork]_vars

\* One process that reads and writes everything but the messages while a
\* conversation is stored: one kind of message, one caller and one token
\* limit, the summaries made with and without a summarizer, one fact key, one
\* search and the graph, with no embedding provider initialized
NextFrame ==
  \/ saveMessage("user", T("hi"))
  \/ clearConversation
  \/ setSummarizer
  \/ getConversationContext(1, reservedTokens + 1)
  \/ summarizerResolves(1, T("Custom summary"))
  \/ summarizerRejects(1)
  \/ getRecentMessages(DEFAULT_RECENT_LIMIT)
  \/ saveFact("user_info", "name", T("John"))
  \/ deleteFact(1)
  \/ deleteFactBySubject("user_info", "name")
  \/ getFactsForContext
  \/ \E stored \in EmbeddingProfiles, rank \in RankProfiles :
       /\ stored[2] = <<25, 0>> /\ rank[2] = 1
       /\ searchFactsHybrid("has", TRUE, TRUE, <<25, 0>>, stored, rank)
  \/ \E stored \in EmbeddingProfiles : stored[2] = <<25, 0>> /\ getFactsGraphData(stored)

SpecFrame == Init /\ [][NextFrame]_vars

\* str.lastIndexOf(pat, from): the largest 0-based index <= from at which pat
\* occurs in str, -1 when there is none
lastIndexOf(str, pat, from) ==
  LET at == {i \in 0..from : /\ i + Len(pat) <= Len(str)
                              /\ SubSeq(str, i + 1, i + Len(pat)) = pat}
  IN IF at = {} THEN -1 ELSE CHOOSE i \in at : \A j \in at : j <= i

\* splitMessage(text, maxLength): the chunks pushed from `remaining` on; an
\* index is > maxLength / 2 when twice the index is > maxLength
RECURSIVE splitMessage(_, _)
splitMessage(remaining, maxLength) ==
  IF Len(remaining) = 0 THEN <<>>
  ELSE IF Len(remaining) <= maxLength THEN <<remaining>>
  ELSE LET doubleNewline == lastIndexOf(remaining, "\n\n", maxLength)
           singleNewline == lastIndexOf(remaining, "\n", maxLength)
           ends == {lastIndexOf(remaining, ". ", maxLength),
                    lastIndexOf(remaining, "! ", maxLength),
                    lastIndexOf(remaining, "? ", maxLength)}
           sentenceEnd == CHOOSE i \in ends : \A j \in ends : j <= i
           space == lastIndexOf(remaining, " ", maxLength)
           splitPoint ==
             IF 2 * doubleNewline > maxLength THEN doubleNewline
             ELSE IF 2 * singleNewline > maxLength THEN singleNewline
             ELSE IF 2 * sentenceEnd > maxLength THEN sentenceEnd + 1
             ELSE IF 2 * space > maxLength THEN space
             ELSE maxLength
           \* substring(0, splitPoint) and substring(splitPoint) clamp to the length
           cut == IF splitPoint > Len(remaining) THEN Len(remaining) ELSE splitPoint
       IN <<Trim(SubSeq(remaining, 1, cut))>>
          \o splitMessage(Trim(SubSeq(remaining, cut + 1, Len(remaining))), maxLength)

\* sendResponse / sendMessage: a text within the limit is sent whole, a longer
\* one in the chunks of splitMessage
sendResponse(text, maxLength) ==
  /\ ret' = [op |-> "sendResponse", text |-> text, maxLength |-> maxLength,
             chunks |-> IF Len(text) <= maxLength THEN <<text>>
                        ELSE splitMessage(text, maxLength)]
  /\ UNCHANGED <<convVars, factVars, cronVars, botVars>>

\* replies of every text, sent under every limit
NextSplit ==
  \E text \in SplitTexts, maxLength \in SplitLengths : sendResponse(text, maxLength)

SpecSplit == Init /\ [][NextSplit]_vars

\* the Telegram channel: updates, proactive messages and the allowlist
NextBot ==
  \/ \E userId \in BotUserIds, chatId \in BotChatIds, handler \in BotHandlers :
       middleware(userId, chatId, handler)
  \/ \E running \in BOOLEAN, refused \in SUBSET (BotChatIds \ {0}) :
       broadcast(running, refused)
  \/ \E running \in BOOLEAN, refused \in SUBSET (BotChatIds \ {0}) :
       syncFromDesktop(running, refused)
  \/ \E userId \in BotUserIds \ {0} : addAllowedUser(userId)
  \/ \E userId \in BotUserIds \ {0} : removeAllowedUser(userId)

SpecBot == Init /\ [][NextBot]_vars

\* a MemoryManager constructed over the database of an earlier session, no
\* summarizer set: the messages table holds a conversation of one kind, and the
\* summaries table is empty or holds the basic summary an earlier call, whose
\* cutoff was message 2, made of message 1
InitConversation ==
  /\ \E kind \in ConversationKinds, n \in 0..MaxConversation :
       /\ messages = {PoolMessage(kind, i) : i \in 1..n}
       /\ msgSeq = n
       /\ savesSinceClear = n
       /\ issuedIds = 1..n
       /\ \E earlier \in (IF n >= 2 THEN BOOLEAN ELSE {FALSE}) :
            /\ sumSeq = IF earlier THEN 1 ELSE 0
            /\ summaries =
                 IF earlier
                 THEN LET summary == createBasicSummary(<<PoolMessage(kind, 1)>>)
                      IN {[id |-> 1, start_message_id |-> 1, end_message_id |-> 1,
                           content |-> summary, token_count |-> estimateTokens(summary)]}
                 ELSE {}
  /\ summarizer = FALSE
  /\ pending = NoPending
  /\ ret = [op |-> "constructor"]
  /\ facts = {}
  /\ factSeq = 0
  /\ facts_fts = rebuildFtsIndex({}, {})
  /\ chunks = <<>>
  /\ embeddingsReady = FALSE
  /\ embedTasks = EmptyBag
  /\ backfill = <<>>
  /\ unhandledRejections = 0
  /\ embedLog = "none"
  /\ cron_jobs = {}
  /\ cronSeq = 0
  /\ allowedUserIds = {}
  /\ activeChatIds = {}
  /\ persistedChatIds = {}
  /\ passedChatIds = {}

\* the context of a stored conversation, asked for with no summarizer set
NextBasic ==
  \E tokenLimit \in BasicBudgets : getConversationContext(1, tokenLimit)

SpecBasic == InitConversation /\ [][NextBasic]_vars

(* ------------------------------------------------------------------ claims *)
\* the token counts of a set of message rows, summed
RECURSIVE SumTokens(_)
SumTokens(S) ==
  IF S = {} THEN 0
  ELSE LET m == CHOOSE x \in S : TRUE IN m.token_count + SumTokens(S \ {m})

UniquePairs(factRows) ==
  \A f, g \in factRows : f.category = g.category /\ f.subject = g.subject => f = g

\* C1: at most one fact exists per (category, subject) pair after any sequence
\* of saveFact, deleteFact and deleteFactBySubject; saveFact on an existing
\* pair returns the existing id, replaces the content and keeps the number of
\* facts, and on a new pair adds exactly one fact under an id never used before.
C1_SaveFactUpsert ==
  [][/\ UniquePairs(facts')
     /\ \A key \in FactKeys, content \in FactContents :
          saveFact(key[1], key[2], content) =>
            LET old == {f \in facts : f.category = key[1] /\ f.subject = key[2]}
            IN IF old # {}
               THEN /\ \E f \in old : /\ ret'.value = f.id
                                      /\ facts' = (facts \ old) \cup
                                                  {[f EXCEPT !.content = content]}
                    /\ Cardinality(facts') = Cardinality(facts)
               ELSE /\ ret'.value > factSeq
                    /\ facts' = facts \cup {[id |-> ret'.value, category |-> key[1],
                                             subject |-> key[2], content |-> content]}
                    /\ Cardinality(facts') = Cardinality(facts) + 1]_vars

\* a saveFact that returned id 1 although two ids were handed out: an update,
\* made while another pair is stored
C1_Witness ==
  /\ ret.op = "saveFact" /\ ret.value = 1 /\ factSeq = 2
  /\ Cardinality(facts) = 2
  /\ \E f \in facts : f.id = 1 /\ f.content = T("John Doe")

\* C2: getMessageCount() equals the number of saveMessage calls made since the
\* last clearConversation (since creation if there was none).
C2_MessageCount == getMessageCount = savesSinceClear

\* two saves after a clearConversation that removed an earlier message
C2_Witness == savesSinceClear = 2 /\ msgSeq = 3

\* C3: when the token counts of all stored messages sum to at most
\* budget - 10000, getConversationContext(budget) returns every stored message
\* in ascending id order, summarizedCount = 0, no summary entry, and creates no
\* summary; an empty conversation yields messages = [], totalTokens = 0,
\* summarizedCount = 0.
C3_AllFit ==
  [][\A caller \in Callers, budget \in Budgets :
       getConversationContext(caller, budget) =>
         /\ SumTokens(messages) <= budget - 10000 =>
              /\ ret'.status = "resolved"
              /\ ret'.messages = RoleContent(OrderByIdAsc(messages))
              /\ ret'.summarizedCount = 0
              /\ ret'.summary = <<>>
              /\ summaries' = summaries /\ sumSeq' = sumSeq /\ pending' = pending
         /\ messages = {} =>
              /\ ret'.status = "resolved"
              /\ ret'.messages = <<>>
              /\ ret'.totalTokens = 0
              /\ ret'.summarizedCount = 0]_vars

\* a call under a budget of 10004 that returned both stored messages, whose
\* 3 and 1 tokens sum exactly to budget - 10000
C3_Witness ==
  /\ ret.op = "getConversationContext" /\ ret.status = "resolved"
  /\ ret.budget = 10004 /\ Len(ret.stored) = 2
  /\ ret.stored[1].token_count + ret.stored[2].token_count = 4
  /\ Len(ret.messages) = 2 /\ ret.summarizedCount = 0

\* C4: whenever getConversationContext returns summarizedCount > 0, the first
\* returned entry is a synthetic system-role entry carrying the summary of the
\* discarded range, followed by the retained messages in ascending id order,
\* for every budget (also one so small that not even the newest message fits).
C4_SummaryEntry ==
  (ret.op = "getConversationContext" /\ ret.status = "resolved"
     /\ ret.summarizedCount > 0) =>
    /\ ret.summary # <<>>
    /\ Len(ret.messages) = 1 + Len(ret.stored) - ret.summarizedCount
    /\ ret.messages[1] =
         [role |-> "system",
          content |-> Concat(T("[Previous conversation summary]\n"), ret.summary[1])]
    /\ Tail(ret.messages) =
         RoleContent(SubSeq(ret.stored, ret.summarizedCount + 1, Len(ret.stored)))

\* C5: the totalTokens getConversationContext(budget) returns never exceeds
\* budget, whether the summary is the basic one or comes from a configured
\* summarizer with output of any length.
C5_WithinBudget ==
  (ret.op = "getConversationContext" /\ ret.status = "resolved") =>
    ret.totalTokens <= ret.budget

\* C6: if the configured summarizer rejects while getConversationContext needs
\* a new summary, the call rejects, no basic-summary fallback is produced, no
\* summary row is inserted or pruned, and the stored messages are unchanged.
C6_SummarizerRejection ==
  [][\A caller \in Callers :
       summarizerRejects(caller) =>
         /\ ret'.op = "getConversationContext" /\ ret'.status = "rejected"
         /\ summaries' = summaries /\ sumSeq' = sumSeq
         /\ messages' = messages]_vars

\* a call was rejected while messages are stored and a summary of another call
\* is stored
C6_Witness ==
  /\ ret.op = "getConversationContext" /\ ret.status = "rejected"
  /\ Len(ret.stored) >= 2 /\ messages # {} /\ summaries # {}

\* C7: clearConversation removes every message and every summary and leaves
\* the facts, their chunks, the lexical index and the job table as they were.
C7_ClearFrame ==
  [][clearConversation =>
       /\ messages' = {} /\ summaries' = {}
       /\ facts' = facts /\ chunks' = chunks /\ facts_fts' = facts_fts
       /\ cron_jobs' = cron_jobs]_vars

\* clearConversation has just returned; a summary had been created before it,
\* and a fact, its chunk, its index entry and a job are stored
C7_Witness ==
  /\ ret.op = "clearConversation" /\ msgSeq >= 2 /\ sumSeq >= 1
  /\ messages = {} /\ summaries = {}
  /\ facts # {} /\ Len(chunks) > 0 /\ facts_fts # {} /\ cron_jobs # {}

\* C8: in every reachable state each chunk's fact_id is the id of an existing
\* fact: the deletes remove the chunks of the deleted fact, and an embedding
\* that completes after its fact was deleted leaves no chunk behind.
C8_ChunkHasFact ==
  \A i \in 1..Len(chunks) : \E f \in facts : f.id = chunks[i].fact_id

\* the provider answered for a fact that had been deleted meanwhile (the
\* insert was refused), and no embedding is in flight any more
C8_Witness ==
  /\ embedLog = "constraint" /\ factSeq >= 1 /\ facts = {}
  /\ embedTasks = EmptyBag /\ backfill = <<>>

\* C9: after each completed saveFact, deleteFact or deleteFactBySubject the
\* lexical index holds exactly one entry per live fact, with that fact's
\* current category, subject and content, and nothing else.
C9_IndexMirrorsFacts ==
  facts_fts = {[rowid |-> f.id, category |-> f.category, subject |-> f.subject,
                content |-> f.content] : f \in facts}

\* fact 1 was updated after fact 2 had been inserted, and fact 2 is deleted
C9_Witness ==
  /\ ret.op = "saveFact" /\ ret.value = 1 /\ factSeq = 2
  /\ facts = {[id |-> 1, category |-> "user_info", subject |-> "name",
               content |-> T("John Doe")]}

\* C10: saveFact returns the id of the fact it persisted, and whatever the
\* embedding does afterwards (provider error, chunk write refused) changes no
\* fact, leaves no unhandled rejection and does not reach saveFact's caller.
C10_EmbeddingNeverFailsSave ==
  [][/\ \A key \in FactKeys, content \in FactContents :
          saveFact(key[1], key[2], content) =>
            /\ ret'.op = "saveFact"
            /\ [id |-> ret'.value, category |-> key[1], subject |-> key[2],
                content |-> content] \in facts'
     /\ \A providerOk \in BOOLEAN :
          (\/ \E fact \in BagToSet(embedTasks) : embedFactCompletes(fact, providerOk)
           \/ embedMissingFactsStep(providerOk)) =>
            /\ facts' = facts /\ facts_fts' = facts_fts
            /\ ret' = ret
            /\ unhandledRejections' = 0]_vars

\* the embedding a saveFact started has failed at the provider, and the fact
\* that saveFact returned is stored, without a chunk
C10_Witness ==
  /\ ret.op = "saveFact" /\ embedLog = "provider"
  /\ embedTasks = EmptyBag /\ backfill = <<>> /\ chunks = <<>>
  /\ \E f \in facts : f.id = ret.value

\* C15: deleteFact(id) returns true exactly when a fact with that id existed;
\* then the number of facts drops by exactly 1 and every other fact is
\* unchanged; otherwise (also on a second call with the same id) it returns
\* false and changes nothing.  deleteFactBySubject does the same, keyed by
\* (category, subject).
C15_DeleteReturns ==
  [][/\ \A id \in 1..MaxFactId :
          deleteFact(id) =>
            LET hit == {f \in facts : f.id = id}
            IN /\ ret'.value = (hit # {})
               /\ hit # {} => /\ Cardinality(facts') = Cardinality(facts) - 1
                              /\ facts' = {f \in facts : f.id # id}
               /\ hit = {} => facts' = facts /\ chunks' = chunks /\ facts_fts' = facts_fts
     /\ \A key \in FactKeys :
          deleteFactBySubject(key[1], key[2]) =>
            LET hit == {f \in facts : f.category = key[1] /\ f.subject = key[2]}
            IN /\ ret'.value = (hit # {})
               /\ hit # {} => /\ Cardinality(facts') = Cardinality(facts) - 1
                              /\ facts' = facts \ hit
               /\ hit = {} => facts' = facts /\ chunks' = chunks /\ facts_fts' = facts_fts]_vars

\* deleteFact returned true for one of two stored facts, and the other is
\* still stored
C15_Witness ==
  /\ ret.op = "deleteFact" /\ ret.value = TRUE
  /\ factSeq = 2 /\ Cardinality(facts) = 1

\* C16: every saveMessage returns an id strictly greater than every id the
\* store returned before (the first is 1, consecutive saves differ by 1), also
\* across clearConversation: the ids of cleared messages are never reused.
C16_MessageIdsIncrease ==
  [][\A in \in MsgInputs :
       saveMessage(in[1], in[2]) =>
         /\ \A id \in issuedIds : ret'.value > id
         /\ issuedIds = {} => ret'.value = 1
         /\ issuedIds # {} => ret'.value - 1 \in issuedIds
         /\ \E m \in messages' : m.id = ret'.value]_vars

\* a saveMessage returned 3 into a conversation that was cleared after the
\* first two saves
C16_Witness ==
  /\ ret.op = "saveMessage" /\ ret.value = 3
  /\ issuedIds = {1, 2, 3} /\ Cardinality(messages) = 1

\* the least k with 4 * k >= n
CeilQuarter(n) == CHOOSE k \in 0..n : 4 * k >= n /\ (k = 0 \/ 4 * (k - 1) < n)

RECURSIVE SumCeil(_)
SumCeil(rows) ==
  IF rows = {} THEN 0
  ELSE LET m == CHOOSE x \in rows : TRUE
       IN CeilQuarter(TextLen(m.content)) + SumCeil(rows \ {m})

\* C17: the token_count saveMessage stores for content of length n is
\* ceil(n / 4) for every n >= 0 (0 for the empty string, 1001 for n = 4001,
\* 2500 for n = 10000), and getStats().estimatedTokens is the sum of these
\* counts over the stored messages.
C17_TokenCount ==
  /\ \A m \in messages :
       LET n == TextLen(m.content)
       IN /\ m.token_count = CeilQuarter(n)
          /\ n = 0 => m.token_count = 0
          /\ n = 4001 => m.token_count = 1001
          /\ n = 10000 => m.token_count = 2500
  /\ ret.op = "getStats" => ret.estimatedTokens = SumCeil(messages)

\* getStats has reported 3501 tokens over messages of 0, 4001 and 10000
\* characters
C17_Witness ==
  /\ ret.op = "getStats" /\ ret.estimatedTokens = 3501
  /\ {TextLen(m.content) : m \in messages} = {0, 4001, 10000}

\* C18: getRecentMessages(limit) returns exactly the min(limit, count) stored
\* messages with the greatest ids, in ascending id order; on an empty
\* conversation it returns an empty sequence.
C18_RecentMessages ==
  ret.op = "getRecentMessages" =>
    LET rows == ret.value
        got == {rows[i] : i \in 1..Len(rows)}
        count == Cardinality(messages)
    IN /\ Len(rows) = IF ret.limit < count THEN ret.limit ELSE count
       /\ got \subseteq messages
       /\ \A i \in 1..Len(rows) - 1 : rows[i].id < rows[i + 1].id
       /\ \A m \in messages \ got : \A r \in got : m.id < r.id
       /\ messages = {} => rows = <<>>

\* getRecentMessages(2) over three stored messages has returned the two
\* newest ones
C18_Witness ==
  /\ ret.op = "getRecentMessages" /\ ret.limit = 2
  /\ Cardinality(messages) = 3 /\ Len(ret.value) = 2
  /\ ret.value[1].id = 2 /\ ret.value[2].id = 3

\* a step in which searchFactsHybrid returns
SearchStep == ret' # ret /\ ret'.op = "searchFactsHybrid"

\* the characters of sub occur in str as one run
Contains(str, sub) ==
  \E i \in 1..(Len(str) - Len(sub) + 1) : SubSeq(str, i, i + Len(sub) - 1) = sub

\* C11: with an embedding backend, a fact without a chunk degrades to
\* lexical-only matching: when the lexical index matches it with a normalized
\* score of 0.99 or more, searchFactsHybrid returns it.
C11_ChunklessFactReturned ==
  [][SearchStep /\ ret'.embeddingsAvailable =>
       \A i \in 1..Len(ret'.results) :
         LET e == ret'.results[i]
         IN (/\ e.matched
             /\ ~\E j \in 1..Len(chunks) : chunks[j].fact_id = e.id
             /\ e.keywordScore * 100 >= 99 * ret'.maxRank)
            => \E n \in 1..Len(ret'.value) : ret'.value[n].id = e.id]_vars

\* C12: without an embedding backend the lexical weight is 1.0 and the
\* threshold 0.15, and every stored fact whose content contains the query and
\* which the lexical index matches scores at least 0.15 and is not filtered out.
C12_ContainingFactScores ==
  [][SearchStep /\ ~ret'.embeddingsAvailable /\ ret'.keywordOk =>
       /\ ret'.scoreThreshold = 15
       /\ \A f \in facts :
            (Contains(f.content.s, ret'.query) /\ f.id \in MatchedIds(ret'.query))
            => \E i \in 1..Len(ret'.results) :
                 /\ ret'.results[i].id = f.id
                 /\ ret'.results[i].score * 100 >= 15 * ret'.scale
                 /\ (Len(ret'.value) < MAX_SEARCH_RESULTS
                     => \E n \in 1..Len(ret'.value) : ret'.value[n].id = f.id)]_vars

\* C13: a result list of searchFactsHybrid has at most 6 entries, no fact id
\* twice, only entries whose combined score (vector weight x similarity +
\* lexical weight x normalized lexical score) is at or above the threshold
\* (0.35 with a backend, 0.15 without), is in non-increasing score order, and
\* leaves out no candidate that scores higher than an entry it holds.
C13_ResultList ==
  [][SearchStep =>
       LET r == ret'
           value == r.value
           ids == {value[n].id : n \in 1..Len(value)}
           wv == IF r.embeddingsAvailable THEN 7 ELSE 0
           wk == IF r.embeddingsAvailable THEN 3 ELSE 10
           threshold == IF r.embeddingsAvailable THEN 35 ELSE 15
           \* 10 * 1000 * maxRank times the combined score
           Combined(e) == wv * e.vectorScore * r.maxRank + wk * 1000 * e.keywordScore
       IN /\ Len(value) <= 6
          /\ Cardinality(ids) = Len(value)
          /\ ids \subseteq {f.id : f \in facts}
          /\ \A n \in 1..Len(value) :
               /\ value[n].score = Combined(value[n])
               /\ Combined(value[n]) * 100 >= threshold * 10 * 1000 * r.maxRank
          /\ \A n \in 1..(Len(value) - 1) : value[n].score >= value[n + 1].score
          /\ \A i \in 1..Len(r.results) :
               r.results[i].id \notin ids
               => \A n \in 1..Len(value) : r.results[i].score <= value[n].score]_vars

\* a search over seven candidates that all pass the threshold has returned six
\* of them, the first with a higher score than the last
C13_Witness ==
  /\ ret.op = "searchFactsHybrid" /\ ret.embeddingsAvailable
  /\ Len(ret.results) = 7 /\ Len(ret.value) = 6
  /\ \A i \in 1..7 : ret.results[i].score * 100 >= ret.scoreThreshold * ret.scale
  /\ ret.value[1].score > ret.value[6].score

\* C14: searchFactsHybrid returns whichever sub-search fails.  When embedding
\* the query or the vector scan throws, the result is the one of the lexical
\* signal alone; when the lexical query throws, the one of the vector signal
\* alone; the failing signal adds nothing to any score.
C14_SubSearchFailure ==
  [][SearchStep =>
       LET r == ret'
           resultIds == {r.results[i].id : i \in 1..Len(r.results)}
           wv == IF r.embeddingsAvailable THEN 7 ELSE 0
           wk == IF r.embeddingsAvailable THEN 3 ELSE 10
           Passing(e) == e.score * 100 >= r.scoreThreshold * r.scale
       IN /\ (r.embeddingsAvailable /\ ~r.vectorOk) =>
               /\ resultIds = IF r.keywordOk THEN MatchedIds(r.query) ELSE {}
               /\ \A i \in 1..Len(r.results) :
                    /\ r.results[i].vectorScore = 0
                    /\ r.results[i].score = wk * 1000 * r.results[i].keywordScore
          /\ ~r.keywordOk =>
               /\ resultIds = IF r.embeddingsAvailable /\ r.vectorOk
                              THEN {chunks[j].fact_id : j \in 1..Len(chunks)}
                              ELSE {}
               /\ \A i \in 1..Len(r.results) :
                    /\ r.results[i].keywordScore = 0
                    /\ r.results[i].score = wv * r.results[i].vectorScore * r.maxRank
          /\ \A n \in 1..Len(r.value) :
               \E i \in 1..Len(r.results) : r.results[i] = r.value[n] /\ Passing(r.value[n])
          /\ Len(r.value) < MAX_SEARCH_RESULTS =>
               \A i \in 1..Len(r.results) :
                 Passing(r.results[i]) => \E n \in 1..Len(r.value) : r.value[n] = r.results[i]]_vars

\* the lexical query has thrown over a fact the index matches, and the search
\* has returned that fact on its vector score alone
C14_Witness ==
  /\ ret.op = "searchFactsHybrid" /\ ret.embeddingsAvailable
  /\ ret.vectorOk /\ ~ret.keywordOk
  /\ MatchedIds(ret.query) # {}
  /\ \E n \in 1..Len(ret.value) :
       /\ ret.value[n].id \in MatchedIds(ret.query)
       /\ ret.value[n].keywordScore = 0 /\ ret.value[n].vectorScore > 0

\* the links of a returned graph
GraphLinks == {ret.links[i] : i \in 1..Len(ret.links)}

\* C19: in a graph getFactsGraphData returns, no link has its source equal to
\* its target, and no two links have the same unordered pair of ends and the
\* same type.
C19_NoSelfNoDuplicate ==
  ret.op = "getFactsGraphData" =>
    /\ \A i \in 1..Len(ret.links) : ret.links[i].source # ret.links[i].target
    /\ \A i, j \in 1..Len(ret.links) :
         i # j =>
           ~(/\ ret.links[i].type = ret.links[j].type
             /\ {ret.links[i].source, ret.links[i].target}
                  = {ret.links[j].source, ret.links[j].target})

\* a graph over embedded facts in which one pair of facts is linked three
\* times, once for each type
C19_Witness ==
  /\ ret.op = "getFactsGraphData"
  /\ \E a, b \in {f.id : f \in facts} :
       /\ a # b
       /\ \A t \in {"category", "semantic", "keyword"} :
            \E l \in GraphLinks : l.type = t /\ {l.source, l.target} = {a, b}

\* the place of fact f among the facts of its category in subject order
PlaceInCategory(f) ==
  1 + Cardinality({g \in facts : g.category = f.category /\ StrLess(g.subject, f.subject)})

\* C20: the facts of a category being f1..fn in subject order, the graph has
\* a category link between fi and fj exactly when 0 < j - i <= 3, and none
\* between facts of two categories; two facts of one category give 2 nodes and
\* one category link.
C20_CategoryLinks ==
  ret.op = "getFactsGraphData" =>
    LET categoryLinks == {l \in GraphLinks : l.type = "category"}
        Linked(f, g) == \E l \in categoryLinks : {l.source, l.target} = {f.id, g.id}
    IN /\ \A l \in categoryLinks : {l.source, l.target} \subseteq {f.id : f \in facts}
       /\ \A f, g \in facts :
            f # g =>
              (Linked(f, g) <=>
                 /\ f.category = g.category
                 /\ PlaceInCategory(f) - PlaceInCategory(g) \in ((-3)..3) \ {0})
       /\ (Cardinality(facts) = 2 /\ Cardinality({f.category : f \in facts}) = 1) =>
            /\ Len(ret.nodes) = 2
            /\ Len(SelectSeq(ret.links, LAMBDA l : l.type = "category")) = 1

\* a graph over a category of six facts: twelve category links, none between
\* the first and the fifth fact in subject order
C20_Witness ==
  /\ ret.op = "getFactsGraphData"
  /\ \E c \in {f.category : f \in facts} :
       /\ Cardinality({f \in facts : f.category = c}) = 6
       /\ Len(SelectSeq(ret.links, LAMBDA l : l.type = "category")) = 12
       /\ \E f, g \in facts :
            /\ f.category = c /\ g.category = c
            /\ PlaceInCategory(f) = 1 /\ PlaceInCategory(g) = 5
            /\ ~\E l \in GraphLinks : l.type = "category" /\ {l.source, l.target} = {f.id, g.id}

\* a step in which getFactsGraphData returns
GraphStep == ret' # ret /\ ret'.op = "getFactsGraphData"

FactsInOrder ==
  LET rows == {[category |-> f.category, subject |-> f.subject, content |-> f.content] :
                 f \in facts}
      Before(g, f) == \/ StrLess(g.category, f.category)
                      \/ g.category = f.category /\ StrLess(g.subject, f.subject)
      Place(f) == 1 + Cardinality({g \in rows : Before(g, f)})
  IN [i \in 1..Cardinality(rows) |-> CHOOSE f \in rows : Place(f) = i]

\* C22: the text of getFactsForContext is a function of the set of stored
\* (category, subject, content) and not of the order of the saves and updates:
\* it lists the categories in ascending order and the subjects in ascending
\* order within a category, and is the empty string over an empty store.
C22_ContextText ==
  [][(ret' # ret /\ ret'.op = "getFactsForContext") =>
       /\ ret'.value = FactsText(FactsInOrder)
       /\ facts = {} => ret'.value = T("")]_vars

\* the text has been returned for two facts of one category of which the one
\* saved later comes first
C22_Witness ==
  /\ ret.op = "getFactsForContext"
  /\ \E f, g \in facts :
       /\ f.category = g.category /\ f.id < g.id /\ StrLess(g.subject, f.subject)
  /\ ret.value # T("")

\* the messages a call under budget retains: the longest run of newest
\* messages whose token counts sum to at most budget - 10000
Retained(budget) ==
  LET From(c) == {m \in messages : m.id >= c}
      fits == {c \in {m.id : m \in messages} : SumTokens(From(c)) <= budget - 10000}
  IN IF fits = {} THEN {} ELSE From(CHOOSE c \in fits : \A d \in fits : c <= d)

\* a call under budget discards messages and retains some: its cutoff is the
\* id of the oldest retained message
HasCutoff(budget) == Retained(budget) # {} /\ Retained(budget) # messages
CutoffId(budget) ==
  (CHOOSE m \in Retained(budget) : \A o \in Retained(budget) : m.id <= o.id).id

\* C23: when a summary with end_message_id = C - 1 is stored as
\* getConversationContext computes the cutoff C, the call returns that summary's
\* content unchanged, does not invoke the summarizer and leaves the stored
\* summaries as they are.
C23_ExactLookup ==
  [][\A caller \in Callers, budget \in Budgets :
       (/\ getConversationContext(caller, budget)
        /\ HasCutoff(budget)
        /\ \E r \in summaries : r.end_message_id = CutoffId(budget) - 1)
       => /\ ret'.status = "resolved"
          /\ \E r \in summaries :
               r.end_message_id = CutoffId(budget) - 1 /\ ret'.summary = <<r.content>>
          /\ pending' = pending
          /\ summaries' = summaries /\ sumSeq' = sumSeq]_vars

\* with a summarizer configured, a call has returned the basic summary an
\* earlier call stored for its cutoff
C23_Witness ==
  /\ ret.op = "getConversationContext" /\ ret.status = "resolved"
  /\ summarizer /\ pending = NoPending
  /\ ret.summary # <<>> /\ ret.summary[1] \notin SummarizerOutputs
  /\ \E r \in summaries :
       /\ r.content = ret.summary[1]
       /\ r.end_message_id = ret.stored[ret.summarizedCount].id

\* C24: when no summary ends at C - 1, a summarizer is configured and P is the
\* stored summary with the greatest end_message_id below C, the summarizer is
\* invoked once, with one system entry holding P's content followed by exactly
\* the messages with P.end_message_id < id < C in ascending order; no message
\* with id <= P.end_message_id is passed.
C24_ExtendPartial ==
  [][\A caller \in Callers, budget \in Budgets :
       (/\ getConversationContext(caller, budget)
        /\ HasCutoff(budget) /\ summarizer
        /\ ~\E r \in summaries : r.end_message_id = CutoffId(budget) - 1
        /\ \E r \in summaries : r.end_message_id < CutoffId(budget))
       => LET C == CutoffId(budget)
              below == {r \in summaries : r.end_message_id < C}
          IN /\ ret'.status = "pending"
             /\ pending'[caller] # <<>>
             /\ \A other \in Callers \ {caller} : pending'[other] = pending[other]
             /\ summaries' = summaries
             /\ \E P \in below :
                  /\ \A r \in below : r.end_message_id <= P.end_message_id
                  /\ LET input == pending'[caller][1].input
                     IN /\ input[1].role = "system"
                        /\ input[1].content = Concat(T("Previous summary: "), P.content)
                        /\ Tail(input) = OrderByIdAsc({m \in messages :
                                                        P.end_message_id < m.id /\ m.id < C})
                        /\ \A i \in 2..Len(input) : input[i].id > P.end_message_id]_vars

\* a call is suspended in the summarizer with the content of a stored summary
\* and the messages after it, of which there are fewer than below the cutoff
C24_Witness ==
  \E caller \in Callers :
    /\ pending[caller] # <<>>
    /\ LET p == pending[caller][1]
       IN /\ p.input[1].role = "system"
          /\ Len(p.input) >= 2
          /\ Len(p.input) - 1 < Len(p.stored) - Len(p.recent)
          /\ \E P \in summaries :
               p.input[1].content = Concat(T("Previous summary: "), P.content)

\* C25: a summary getConversationContext persists covers the conversation from
\* its start through C - 1: start_message_id is the id of the oldest stored
\* message, end_message_id is C - 1, and start_message_id <= end_message_id;
\* also when it extends a partial summary and after a clearConversation.
\* (Stated for the calls during which the conversation did not change.)
C25_SummaryRange ==
  [][(sumSeq' = sumSeq + 1 /\ ret'.stored = OrderByIdAsc(messages)) =>
       \A r \in summaries' :
         r.id = sumSeq' =>
           /\ r.start_message_id = ret'.stored[1].id
           /\ r.end_message_id = CutoffId(ret'.budget) - 1
           /\ r.start_message_id <= r.end_message_id]_vars

\* the row a step has inserted into summaries, as far as the return value and
\* the counter show it: its range starts at 1 or at the first message read
InsertedRows ==
  {[id |-> sumSeq + 1, start_message_id |-> st,
    end_message_id |-> ret'.stored[ret'.summarizedCount].id,
    content |-> ret'.summary[1],
    token_count |-> CeilQuarter(TextLen(ret'.summary[1]))] :
     st \in {1, ret'.stored[1].id}}

\* C26: when a getConversationContext call that persists a summary completes,
\* at most 3 summaries are stored, and they are the ones with the largest
\* end_message_id among those present just before pruning; the number of
\* stored summaries never exceeds 3.
C26_PruneKeepsThree ==
  [][/\ Cardinality(summaries') <= 3
     /\ sumSeq' = sumSeq + 1 =>
          \E n \in InsertedRows :
            LET before == summaries \cup {n}
            IN /\ summaries' \subseteq before
               /\ Cardinality(summaries') =
                    IF Cardinality(before) < 3 THEN Cardinality(before) ELSE 3
               /\ \A k \in summaries', d \in before \ summaries' :
                    k.end_message_id >= d.end_message_id]_vars

\* a fourth summary has been persisted and an older one deleted for it
C26_Witness ==
  /\ sumSeq = 4 /\ Cardinality(summaries) = 3
  /\ ret.op = "getConversationContext" /\ ret.status = "resolved"
  /\ \E n \in summaries : n.id = 4 /\ ret.summary = <<n.content>>
  /\ Cardinality({r.end_message_id : r \in summaries}) = 3

\* C27: a summary getConversationContext creates for its cutoff is still
\* stored when the call returns (so that the same call repeated at once finds
\* it and does not invoke the summarizer again), after any history of earlier
\* calls with other budgets.  (Stated for calls that no other call or
\* operation overlaps.)
C27_CreatedSummaryStored ==
  [][(/\ sumSeq' = sumSeq + 1
      /\ pending' = NoPending
      /\ ret'.stored = OrderByIdAsc(messages))
     => \E r \in summaries' : r.id = sumSeq' /\ ret'.summary = <<r.content>>]_vars

\* C28: when clearConversation runs while a getConversationContext call is
\* suspended in the summarizer, no summary is stored once both have completed:
\* with no call suspended, every stored summary ends at a stored message.
C28_NoSummaryOutlivesMessages ==
  pending = NoPending =>
    \A r \in summaries : \E m \in messages : m.id = r.end_message_id

\* C29: no two stored summaries share an end_message_id, also when two
\* getConversationContext calls with the same cutoff overlap in the summarizer.
C29_OneSummaryPerEnd ==
  \A r, q \in summaries : r.end_message_id = q.end_message_id => r = q

\* C30: in every reachable state at most one chunk exists per fact, whatever
\* embedFact tasks (of repeated saveFact calls, of the backfill) are in flight
\* for it and in whatever order their provider calls complete.
C30_OneChunkPerFact ==
  \A i, j \in 1..Len(chunks) : chunks[i].fact_id = chunks[j].fact_id => i = j

\* two embedFact tasks of one fact were in flight at once and the one of the
\* older content completed last: no provider call ever failed, nothing is in
\* flight any more, and the chunk stored holds the text the fact had before
C30_Witness ==
  /\ embedLog = "none"
  /\ embedTasks = EmptyBag /\ backfill = <<>>
  /\ \E f \in facts : \E i \in 1..Len(chunks) :
       /\ chunks[i].fact_id = f.id
       /\ chunks[i].content # textToEmbed(f)

\* C31: once every embedding task in flight has completed, none of them with
\* a provider failure, the chunk of each stored fact holds the text of that
\* fact's current category, subject and content.
C31_ChunkOfCurrentContent ==
  (embedTasks = EmptyBag /\ backfill = <<>> /\ embedLog = "none") =>
    \A i \in 1..Len(chunks) : \A f \in facts :
      f.id = chunks[i].fact_id => chunks[i].content = textToEmbed(f)

\* C32: initializeEmbeddings queues every fact that has no chunk; the backfill
\* attempts them one at a time, from the head; an attempt, failed or not,
\* leaves the rest of the queue to be attempted; a provider success for a fact
\* that is still stored leaves that fact with a chunk; and every queued fact is
\* attempted in the end.
C32_Backfill ==
  /\ [][/\ initializeEmbeddings =>
             /\ \A f \in facts :
                  (\E i \in 1..Len(backfill') : backfill'[i] = f)
                    <=> ~\E c \in 1..Len(chunks) : chunks[c].fact_id = f.id
             /\ Len(backfill') <= Cardinality(facts)
        /\ \A providerOk \in BOOLEAN :
             embedMissingFactsStep(providerOk) =>
               /\ backfill' = Tail(backfill)
               /\ (providerOk /\ \E f \in facts' : f.id = Head(backfill).id) =>
                    \E c \in 1..Len(chunks') : chunks'[c].fact_id = Head(backfill).id]_vars
  /\ \A n \in 1..MaxFactId : (Len(backfill) = n) ~> (Len(backfill) < n)

\* the backfill queued both stored facts, the provider failed for the first,
\* and the second is still queued to be attempted
C32_Witness ==
  /\ Cardinality(facts) = 2
  /\ Len(backfill) = 1
  /\ \E f \in facts : f.id < backfill[1].id
  /\ chunks = <<>>
  /\ embedTasks = EmptyBag
  /\ embedLog = "provider"

\* the entries of a resolved getConversationContext result after its summary
\* entry, and the messages the call read from position k on
NonSummary(r) ==
  IF r.summary # <<>> /\ TextLen(r.summary[1]) > 0 THEN Tail(r.messages) ELSE r.messages
StoredFrom(r, k) == SubSeq(r.stored, k, Len(r.stored))
SuffixTokens(r, k) == SumTokens({r.stored[i] : i \in k..Len(r.stored)})

\* C33: the non-summary messages a getConversationContext(budget) call returns
\* are, in ascending id order, a suffix of the conversation it read, whose token
\* counts sum to at most budget - 10000, and which is the whole conversation or
\* cannot take the next older message within budget - 10000.
C33_MaximalSuffix ==
  (ret.op = "getConversationContext" /\ ret.status = "resolved") =>
    \E k \in 1..(Len(ret.stored) + 1) :
      /\ NonSummary(ret) = RoleContent(StoredFrom(ret, k))
      /\ \A i \in k..(Len(ret.stored) - 1) : ret.stored[i].id < ret.stored[i + 1].id
      /\ SuffixTokens(ret, k) <= ret.budget - 10000
      /\ k = 1 \/ SuffixTokens(ret, k - 1) > ret.budget - 10000

\* C33, for every budget: as above, except that the bound on the sum is stated
\* for the messages returned; a call that returns no message (as every call
\* under a budget below 10000 does) returns the empty suffix, whose sum is 0.
C33_MaximalSuffixOrNone ==
  (ret.op = "getConversationContext" /\ ret.status = "resolved") =>
    \E k \in 1..(Len(ret.stored) + 1) :
      /\ NonSummary(ret) = RoleContent(StoredFrom(ret, k))
      /\ \A i \in k..(Len(ret.stored) - 1) : ret.stored[i].id < ret.stored[i + 1].id
      /\ k <= Len(ret.stored) => SuffixTokens(ret, k) <= ret.budget - 10000
      /\ k = 1 \/ SuffixTokens(ret, k - 1) > ret.budget - 10000

\* a call rejected the newest message and returned none, though an older
\* message alone would have fitted the budget
C33_Witness ==
  /\ ret.op = "getConversationContext" /\ ret.status = "resolved"
  /\ NonSummary(ret) = <<>>
  /\ \E i \in 1..Len(ret.stored) : ret.stored[i].token_count <= ret.budget - 10000

\* C34: in every getConversationContext result, summarizedCount plus the
\* number of non-summary messages returned is the number of messages the call
\* read, and summarizedCount counts exactly the messages read whose ids are
\* below that of the oldest message returned.
C34_SummarizedCount ==
  (ret.op = "getConversationContext" /\ ret.status = "resolved") =>
    LET n == Len(NonSummary(ret))
        first == Len(ret.stored) - n + 1
    IN /\ ret.summarizedCount + n = Len(ret.stored)
       /\ NonSummary(ret) = RoleContent(StoredFrom(ret, first))
       /\ n > 0 =>
            ret.summarizedCount =
              Cardinality({i \in 1..Len(ret.stored) : ret.stored[i].id < ret.stored[first].id})

\* a call read three messages, returned the newest two and counted one
C34_Witness ==
  /\ ret.op = "getConversationContext" /\ ret.status = "resolved"
  /\ Len(ret.stored) = 3
  /\ Len(NonSummary(ret)) = 2
  /\ ret.summarizedCount = 1

\* the snippet of a message: the first at most 100 characters of its content,
\* as they are or with every newline turned into a space
Snippet(m, spaced) ==
  LET cut == Slice(m.content, 100)
  IN IF spaced THEN [s |-> ReplaceNewlines(cut.s), pad |-> cut.pad] ELSE cut
\* the last 20 user-role messages of a range
LastUsers(range) ==
  LET IsUser(m) == m.role = "user" IN LastN(SelectSeq(range, IsUser), 20)
\* the snippets listed for these messages: the first 10 different ones
Listed(users, spaced) ==
  FirstN(Distinct([i \in 1..Len(users) |-> Snippet(users[i], spaced)]), 10)
\* the text of the basic summary of a range of count messages
BasicText(count, listed) ==
  Concat(T("Previous conversation (" \o ToString(count) \o " messages) covered:\n"),
         JoinTopics(listed))
\* the range a resolved call discarded: the messages it read and did not return
Discarded(r) == SubSeq(r.stored, 1, Len(r.stored) - Len(NonSummary(r)))

\* the statement of C35 for either reading of a snippet
BasicSummaryOf(spaced) ==
  (~summarizer /\ sumSeq' = sumSeq + 1) =>
    \A range \in {Discarded(ret')} : \A users \in {LastUsers(range)} :
      \A listed \in {Listed(users, spaced)} : \A text \in {BasicText(Len(range), listed)} :
        /\ ret'.summary = <<text>>
        /\ \E r \in summaries' : r.id = sumSeq' /\ r.content = text
        /\ Len(listed) <= 10
        /\ \A i, j \in 1..Len(listed) : listed[i] = listed[j] => i = j
        /\ \A i \in 1..Len(listed) :
             \E k \in 1..Len(users) : listed[i] = Snippet(users[k], spaced)

\* C35: with no summarizer configured, the summary created for a range is the
\* same text for the same messages: it lists at most 10 pairwise distinct
\* snippets, each the first at most 100 characters of one of the last 20
\* user-role messages of the range; a stored partial summary is ignored and the
\* whole range below the cutoff is used.
C35_BasicSummary == [][BasicSummaryOf(FALSE)]_vars

\* C35, for every content: as above, a snippet being the first at most 100
\* characters of the message with every newline replaced by a space.
C35_BasicSummarySpaced == [][BasicSummaryOf(TRUE)]_vars

\* over a stored partial summary, a basic summary was created for a range of
\* more than 20 user messages with more than 10 different snippets
C35_Witness ==
  /\ ret.op = "getConversationContext" /\ ret.status = "resolved"
  /\ ~summarizer /\ sumSeq = 2 /\ Cardinality(summaries) = 2
  /\ Len(Discarded(ret)) > 20
  /\ \A users \in {LastUsers(Discarded(ret))} :
       Len(users) = 20 /\ Len(Listed(users, TRUE)) = 10

\* C36: within the lexical results of one searchFactsHybrid query every
\* normalized lexical score lies in [0, 1], a fact of larger raw relevance
\* magnitude never gets a smaller normalized score than one of smaller
\* magnitude, and the most relevant fact of the batch gets the largest score.
C36_NormalizedOrder ==
  [][SearchStep /\ ret'.keywordOk =>
       \A lexical \in {{ret'.results[i] : i \in {n \in 1..Len(ret'.results) :
                                                  ret'.results[n].matched}}} :
         \A e \in lexical :
           /\ 0 <= e.keywordScore /\ e.keywordScore <= ret'.maxRank
           /\ \A o \in lexical : e.rank[1] > o.rank[1] => e.keywordScore >= o.keywordScore
           /\ (\A o \in lexical : e.rank[1] >= o.rank[1])
                => \A o \in lexical : e.keywordScore >= o.keywordScore]_vars

\* C38: getFactsGraphData bounds its pairwise work for any number of facts:
\* the semantic loop reads at most 200 chunks and makes at most 10000
\* similarity comparisons, the keyword loop takes at most 300 facts and makes
\* at most 15000 pair comparisons, a loop that reaches its cap compares no
\* further pair, and both loops end after a bounded number of iterations.
C38_BoundedPairwiseWork ==
  ret.op = "getFactsGraphDataWork" =>
    /\ ret.chunksRead <= 200
    /\ ret.semantic.compared <= 10000
    /\ ret.factsProcessed <= 300
    /\ ret.keyword.compared <= 15000
    /\ ret.semantic.stopped => ret.semantic.compared = 10000
    /\ ret.keyword.stopped => ret.keyword.compared = 15000
    /\ ret.semantic.iterations <= 200 + 10000 + 1
    /\ ret.keyword.iterations <= 300 + 15000 + 1
    /\ ~ret.embeddings => ret.chunksRead = 0 /\ ret.semantic.compared = 0

\* over a store of more than 300 embedded facts, both loops ran into their caps
C38_Witness ==
  /\ ret.op = "getFactsGraphDataWork"
  /\ ret.rows > 300 /\ ret.embeddings
  /\ ret.chunksRead = 200 /\ ret.factsProcessed = 300
  /\ ret.semantic.stopped /\ ret.keyword.stopped

\* C39: while the allowlist is not empty, an update from a user who is not on
\* it reaches no command or text handler and does not get its chat recorded in
\* activeChatIds, and broadcast and syncFromDesktop send only to chats of
\* updates that passed the allowlist check.
C39_AllowlistGuardsChats ==
  [][/\ \A userId \in BotUserIds, chatId \in BotChatIds, handler \in BotHandlers :
          (/\ middleware(userId, chatId, handler)
           /\ allowedUserIds # {} /\ userId \notin allowedUserIds)
          => /\ ret'.handler = "none"
             /\ activeChatIds' = activeChatIds
     /\ (ret' # ret /\ ret'.op \in {"broadcast", "syncFromDesktop"})
          => ret'.attempted \subseteq passedChatIds]_vars

\* C40: splitMessage(text, maxLength) terminates, and every chunk it returns
\* has length at most maxLength, whichever split point was chosen (paragraph
\* break, newline, sentence end, space or hard cut). The value of
\* splitMessage is computed in every step, so a step that is taken is a call
\* that returned.
C40_ChunksWithinMaxLength ==
  ret.op = "sendResponse" =>
    \A i \in 1..Len(ret.chunks) : Len(ret.chunks[i]) <= ret.maxLength

\* C37: no operation other than clearConversation removes or alters a stored
\* message: getConversationContext (with the creation, extension and pruning
\* of summaries), getRecentMessages, the fact operations, the searches and the
\* graph leave every existing message (id, role, content, token_count) as it
\* was.
C37_MessagesFrame ==
  [][clearConversation \/ \A m \in messages : m \in messages']_vars

\* a summary was created, extended and pruned away, facts were saved and
\* deleted, a search or graph read them, and all five messages are stored
C37_Witness ==
  /\ Cardinality(messages) = MaxMsgId
  /\ sumSeq > SUMMARY_KEEP
  /\ Cardinality(summaries) = SUMMARY_KEEP
  /\ factSeq >= 2
  /\ ret.op \in {"searchFactsHybrid", "getFactsGraphData"}

====
